---- MODULE Spec2Model ----
(***************************************************************************)
(* Physiclaw enforcement core: persona whitelisting and tool execution     *)
(* (cli.py), the OS sandbox switch (security/sandbox.py), the egress       *)
(* watchdog (security/watchdog.py) and the audit ledger (core/audit.py).   *)
(*                                                                         *)
(* Python strings are modelled as sequences of one-character strings so    *)
(* that lower(), upper(), split(), startswith() and the "in" substring     *)
(* test are computed the way the interpreter computes them.                *)
(***************************************************************************)
EXTENDS Integers, Sequences, FiniteSets, TLC

VARIABLES
    environ,     \* os.environ of the process: a function key -> value
    executor,    \* the ToolExecutor last built, or NoExecutor
    built,       \* outcome of the last constructor / get_executor call
    call,        \* the execute() call in progress and its bookkeeping
    psutilOK,    \* watchdog.psutil is not None
    wdThread,    \* state of the watchdog thread
    started,     \* what start_egress_watchdog returned
    process,     \* state of the whole Python process
    conns,       \* connections psutil reports for the process in this poll
    detected,    \* violations returned by the last _check_connections
    polled,      \* how the enumeration of the last poll ended
    auditFile,   \* content of audit.jsonl: the sequence of chunks appended
    lockHolder,  \* owner of audit._lock, or NoThread
    threads,     \* per caller thread: position in audit_log and its record
    counters,    \* audit._counters
    earlier,     \* content of audit.jsonl when the process started
    issued,      \* number of audit_log calls issued so far
    serialized,  \* the calls that took the write lock, in that order
    returned,    \* per counter and label set: the audit_log calls that returned
    scrape,      \* the get_prometheus_metrics call in progress and its lines
    _API_KEY_MAP, \* bridge._API_KEY_MAP: None, or the parsed credential map
    jwtOK,       \* "import jwt" succeeds in this installation
    authz,       \* the _is_authorized call last made and its answer
    goal,        \* the submit_goal request in hand and its response
    bwrapOnPath, \* shutil.which("bwrap") finds the binary
    sandbox      \* the run_in_bwrap call in progress and its bookkeeping

execVars  == <<environ, executor, built, call>>
wdVars    == <<psutilOK, wdThread, started, process, conns, detected, polled>>
auditVars == <<auditFile, lockHolder, threads, counters, earlier, issued, serialized,
               returned, scrape>>
bridgeVars == <<_API_KEY_MAP, jwtOK, authz, goal>>
sandboxVars == <<bwrapOnPath, sandbox>>
vars      == <<environ, executor, built, call, psutilOK, wdThread, started,
               process, conns, detected, polled, auditFile, lockHolder, threads,
               counters, earlier, issued, serialized, returned, scrape,
               _API_KEY_MAP, jwtOK, authz, goal, bwrapOnPath, sandbox>>

-----------------------------------------------------------------------------
(* Bounds of the model.                                                    *)

\* largest number of variables in the ambient environment
MaxEnvKeys == 2
\* largest number of connections psutil reports in one poll
MaxConns == 2
\* number of audit_log calls issued in one run
MaxCalls == 2

-----------------------------------------------------------------------------
(* Python string primitives over sequences of characters.                  *)

UpperLetters == <<"A","B","C","D","E","F","G","H","I","J","K","L","M",
                  "N","O","P","Q","R","S","T","U","V","W","X","Y","Z">>
LowerLetters == <<"a","b","c","d","e","f","g","h","i","j","k","l","m",
                  "n","o","p","q","r","s","t","u","v","w","x","y","z">>

\* str.isspace() for the characters of the model's alphabet
Whitespace == {" ", "\t"}

LowerChar(c) ==
    IF \E i \in 1..26 : UpperLetters[i] = c
    THEN LowerLetters[CHOOSE i \in 1..26 : UpperLetters[i] = c]
    ELSE c

UpperChar(c) ==
    IF \E i \in 1..26 : LowerLetters[i] = c
    THEN UpperLetters[CHOOSE i \in 1..26 : LowerLetters[i] = c]
    ELSE c

\* str.lower() and str.upper()
Lower(s) == [i \in 1..Len(s) |-> LowerChar(s[i])]
Upper(s) == [i \in 1..Len(s) |-> UpperChar(s[i])]

\* the Python test "a in b" for strings: a is a contiguous part of b
IsSubstr(a, b) ==
    \E i \in 0..(Len(b) - Len(a)) : SubSeq(b, i + 1, i + Len(a)) = a

\* str.startswith
StartsWith(s, p) == Len(p) <= Len(s) /\ SubSeq(s, 1, Len(p)) = p

\* str.split() without arguments: split on runs of whitespace, no empty words
RECURSIVE SplitFrom(_, _, _, _)
SplitFrom(s, i, cur, acc) ==
    IF i > Len(s)
    THEN IF cur = <<>> THEN acc ELSE Append(acc, cur)
    ELSE IF s[i] \in Whitespace
         THEN SplitFrom(s, i + 1, <<>>, IF cur = <<>> THEN acc ELSE Append(acc, cur))
         ELSE SplitFrom(s, i + 1, Append(cur, s[i]), acc)

Split(s) == SplitFrom(s, 1, <<>>, <<>>)

\* " ".join(words)
RECURSIVE JoinSpace(_)
JoinSpace(words) ==
    IF words = <<>> THEN <<>>
    ELSE IF Len(words) = 1 THEN words[1]
    ELSE words[1] \o <<" ">> \o JoinSpace(Tail(words))

\* str.strip()
RECURSIVE LStrip(_)
LStrip(s) == IF s # <<>> /\ Head(s) \in Whitespace THEN LStrip(Tail(s)) ELSE s

RECURSIVE RStrip(_)
RStrip(s) ==
    IF s # <<>> /\ s[Len(s)] \in Whitespace
    THEN RStrip(SubSeq(s, 1, Len(s) - 1))
    ELSE s

Strip(s) == RStrip(LStrip(s))

\* shlex.split(s) in POSIX mode for strings without backslashes: words are
\* separated by whitespace, quotes group characters, and an unclosed quote
\* raises ValueError (ok = FALSE).
ShlexQuotes == {"'", "\""}

RECURSIVE ShlexFrom(_, _, _, _, _, _)
ShlexFrom(s, i, cur, inTok, quote, acc) ==
    IF i > Len(s)
    THEN IF quote # ""
         THEN [ok |-> FALSE, argv |-> <<>>]
         ELSE [ok |-> TRUE, argv |-> IF inTok THEN Append(acc, cur) ELSE acc]
    ELSE IF quote # ""
         THEN IF s[i] = quote
              THEN ShlexFrom(s, i + 1, cur, TRUE, "", acc)
              ELSE ShlexFrom(s, i + 1, Append(cur, s[i]), TRUE, quote, acc)
         ELSE IF s[i] \in ShlexQuotes
              THEN ShlexFrom(s, i + 1, cur, TRUE, s[i], acc)
              ELSE IF s[i] \in Whitespace
                   THEN ShlexFrom(s, i + 1, <<>>, FALSE, "",
                                  IF inTok THEN Append(acc, cur) ELSE acc)
                   ELSE ShlexFrom(s, i + 1, Append(cur, s[i]), TRUE, "", acc)

ShlexSplit(s) == ShlexFrom(s, 1, <<>>, FALSE, "", <<>>)

-----------------------------------------------------------------------------
(* cli.py: constants.                                                      *)

_STRIPPED_ENV_PREFIXES == {
    <<"A","W","S","_">>,
    <<"A","Z","U","R","E","_">>,
    <<"G","C","P","_">>,
    <<"G","O","O","G","L","E","_">>,
    <<"O","P","E","N","A","I","_">>,
    <<"A","N","T","H","R","O","P","I","C","_">>,
    <<"A","P","I","_","K","E","Y">>,
    <<"S","E","C","R","E","T">>,
    <<"K","U","B","E","C","O","N","F","I","G">>,
    <<"K","U","B","E","_">>,
    <<"V","A","U","L","T","_">>,
    <<"T","O","K","E","N">>,
    <<"P","A","S","S","W","O","R","D">>,
    <<"C","R","E","D","E","N","T","I","A","L">>,
    <<"P","R","I","V","A","T","E","_","K","E","Y">>,
    <<"S","L","A","C","K","_">>,
    <<"D","I","S","C","O","R","D","_">>,
    <<"T","E","L","E","G","R","A","M","_">>,
    <<"P","O","S","T","H","O","G">>,
    <<"S","E","N","T","R","Y","_">>,
    <<"S","T","R","I","P","E","_">>
}

_SAFE_ENV_KEYS == {
    <<"P","A","T","H">>,
    <<"H","O","M","E">>,
    <<"U","S","E","R">>,
    <<"L","A","N","G">>,
    <<"L","C","_","A","L","L">>,
    <<"T","E","R","M">>,
    <<"P","H","Y","S","I","C","L","A","W","_","P","E","R","S","O","N","A">>
}

SRE_WHITELIST == {
    <<"k","u","b","e","c","t","l","-","g","e","t">>,
    <<"k","u","b","e","c","t","l"," ","g","e","t">>,
    <<"t","e","r","r","a","f","o","r","m","-","p","l","a","n">>,
    <<"t","e","r","r","a","f","o","r","m"," ","p","l","a","n">>,
    <<"l","o","g","-","a","g","g","r","e","g","a","t","o","r">>,
    <<"p","r","o","m","e","t","h","e","u","s","-","q","u","e","r","y">>
}

SECOPS_WHITELIST == {
    <<"n","m","a","p">>,
    <<"b","a","n","d","i","t","-","s","c","a","n">>,
    <<"b","a","n","d","i","t">>,
    <<"i","a","m","-","i","n","s","p","e","c","t">>,
    <<"v","a","u","l","t","-","r","e","a","d">>
}

\* class Persona(str, Enum): a member is represented by its value
PersonaSRE == <<"s","r","e">>
PersonaSECOPS == <<"s","e","c","o","p","s">>
Persona == {PersonaSRE, PersonaSECOPS}

\* the third persona bridge.py accepts
P_data_architect == <<"d","a","t","a","_","a","r","c","h","i","t","e","c","t">>

\* the generic substrings _clean_env looks for anywhere in a key
CleanEnvSubstrings == {
    <<"K","E","Y">>,
    <<"S","E","C","R","E","T">>,
    <<"T","O","K","E","N">>,
    <<"P","A","S","S","W","O","R","D">>
}

K_PHYSICLAW_PERSONA == <<"P","H","Y","S","I","C","L","A","W","_","P","E","R","S","O","N","A">>
K_MY_API_TOKEN == <<"M","Y","_","A","P","I","_","T","O","K","E","N">>
K_PHYSICLAW_SANDBOX == <<"P","H","Y","S","I","C","L","A","W","_","S","A","N","D","B","O","X">>

\* argv words the mapping table of _tool_to_argv produces
W_kubectl == <<"k","u","b","e","c","t","l">>
W_get == <<"g","e","t">>
W_terraform == <<"t","e","r","r","a","f","o","r","m">>
W_plan == <<"p","l","a","n">>
W_nmap == <<"n","m","a","p">>
W_bandit == <<"b","a","n","d","i","t">>

-----------------------------------------------------------------------------
(* Inputs the model draws from.                                            *)

\* tool strings passed to execute()
ToolInputs == {
    <<>>,
    <<"k">>,
    <<"r","m">>,
    <<"r","m"," ","-","r","f"," ","/">>,
    <<"c","u","r","l">>,
    <<"n","m","a","p">>,
    <<"N","M","A","P">>,
    <<"n","m","a","p",";"," ","c","u","r","l">>,
    <<"K","u","b","e","c","t","l"," "," ","G","E","T">>,
    <<"k","u","b","e","c","t","l","-","g","e","t">>,
    <<"t","e","r","r","a","f","o","r","m"," ","p","l","a","n">>,
    <<"l","o","g","-","a","g","g","r","e","g","a","t","o","r">>,
    <<"p","r","o","m","e","t","h","e","u","s","-","q","u","e","r","y">>,
    <<"b","a","n","d","i","t","-","s","c","a","n">>,
    <<"i","a","m","-","i","n","s","p","e","c","t">>,
    <<"v","a","u","l","t","-","r","e","a","d">>,
    <<"v","a","u","l","t","-","r","e","a","d"," ","'","x">>,
    <<"l","o","g","-","a","g","g","r","e","g","a","t","o","r"," ","n","m","a","p">>,
    <<" ">>
}

\* positional arguments passed to execute(), already str()-converted
ArgInputs == {<<>>, <<<<"-","s","V">>>>}

\* the timeout keyword: absent, a number of seconds, or a non-number
TimeoutInputs == {"absent", "numeric", "nonnumeric"}

\* persona strings handed to ToolExecutor(...) and get_executor(...)
PersonaInputs == {
    <<"s","r","e">>,
    <<"S","E","C","O","P","S">>,
    <<"s","e","c","o","p","s">>,
    <<"d","a","t","a","_","a","r","c","h","i","t","e","c","t">>,
    <<"r","o","o","t">>,
    <<>>
}

\* names of variables that may be present in the ambient environment
EnvKeyInputs == {
    <<"P","A","T","H">>,
    <<"H","O","M","E">>,
    <<"E","D","I","T","O","R">>,
    <<"A","W","S","_","S","E","C","R","E","T","_","A","C","C","E","S","S","_","K","E","Y">>,
    <<"M","Y","_","A","P","I","_","T","O","K","E","N">>,
    <<"d","b","_","p","a","s","s","w","o","r","d">>,
    <<"v","a","u","l","t","_","a","d","d","r">>,
    <<"D","B","_","C","R","E","D","E","N","T","I","A","L">>,
    <<"S","S","H","_","A","U","T","H","_","S","O","C","K">>,
    <<"P","H","Y","S","I","C","L","A","W","_","S","A","N","D","B","O","X">>,
    <<"P","H","Y","S","I","C","L","A","W","_","P","E","R","S","O","N","A">>
}

\* values PHYSICLAW_SANDBOX may carry
SandboxValueInputs == {
    <<"1">>,
    <<" ","Y","e","s"," ">>,
    <<"0">>
}

\* the value of every other variable
SomeValue == <<"v">>

-----------------------------------------------------------------------------
(* cli.py: the authorization model and the execution boundary.             *)

\* def _norm(tool): " ".join(tool.lower().split())
_norm(tool) == JoinSpace(Split(Lower(tool)))

\* ToolExecutor.allowed, on the whitelist the executor is bound to
allowed(whitelist, tool) ==
    LET n == _norm(tool)
    IN  \E t \in whitelist :
            n = _norm(t) \/ IsSubstr(n, _norm(t)) \/ IsSubstr(_norm(t), n)

\* one whitelist bound to every persona
WhitelistShared(persona) == SRE_WHITELIST

\* the whitelist ToolExecutor.__init__ binds to a Persona member
WhitelistFor(persona) ==
    IF persona = PersonaSRE THEN SRE_WHITELIST ELSE SECOPS_WHITELIST

\* ToolExecutor._tool_to_argv: ok = FALSE when shlex.split raises ValueError
_tool_to_argv(tool, args) ==
    LET n == _norm(tool)
    IN  IF IsSubstr(W_kubectl, n) /\ IsSubstr(W_get, n)
        THEN [ok |-> TRUE, argv |-> <<W_kubectl, W_get>> \o args]
        ELSE IF IsSubstr(W_terraform, n) /\ IsSubstr(W_plan, n)
        THEN [ok |-> TRUE, argv |-> <<W_terraform, W_plan>> \o args]
        ELSE IF IsSubstr(W_nmap, n)
        THEN [ok |-> TRUE, argv |-> <<W_nmap>> \o args]
        ELSE IF IsSubstr(W_bandit, n)
        THEN [ok |-> TRUE, argv |-> <<W_bandit>> \o args]
        ELSE LET sp == ShlexSplit(tool)
             IN  [ok |-> sp.ok, argv |-> IF sp.ok THEN sp.argv \o args ELSE <<>>]

\* the keys the second loop of _clean_env refuses to copy
LooksSecret(k) ==
    LET up == Upper(k)
    IN  \/ \E p \in _STRIPPED_ENV_PREFIXES : StartsWith(up, p)
        \/ \E w \in CleanEnvSubstrings : IsSubstr(w, up)

\* ToolExecutor._clean_env: the environment handed to the subprocess
_clean_env(env, persona) ==
    LET safe == {k \in _SAFE_ENV_KEYS : k \in DOMAIN env}
        rest == {k \in DOMAIN env : k \notin safe /\ ~LooksSecret(k)}
    IN  [k \in safe \cup rest \cup {K_PHYSICLAW_PERSONA} |->
            IF k = K_PHYSICLAW_PERSONA THEN persona ELSE env[k]]

\* sandbox.sandbox_enabled()
SandboxOnValues == {<<"1">>, <<"t","r","u","e">>, <<"y","e","s">>, <<"b","w","r","a","p">>}

sandbox_enabled(env) ==
    LET v == IF K_PHYSICLAW_SANDBOX \in DOMAIN env THEN env[K_PHYSICLAW_SANDBOX] ELSE <<>>
    IN  Lower(Strip(v)) \in SandboxOnValues

\* the runner _run_isolated hands argv to: always subprocess.run
RunnerFor(env) == "direct"

\* what the operating system can answer to subprocess.run(argv, timeout=...)
SubprocessOutcomes == {"exit0", "exit1", "FileNotFoundError", "TimeoutExpired", "OSError"}

\* outcomes for which a child process was created
Spawning == {"exit0", "exit1", "TimeoutExpired"}

\* the timeout a request carries when it carries a number, in seconds
RequestTimeout == 1

\* the timeout of _run_isolated when the request carries no number
DefaultTimeout == 300

\* how long a tool command runs when nothing stops it, in seconds
CommandDurations == {0, 2, 400}

\* timeout_sec of line 132 in seconds
TimeoutSeconds(timeout_sec) ==
    IF timeout_sec = "request" THEN RequestTimeout ELSE DefaultTimeout

\* the dict _run_isolated returns when the TimeoutExpired clause is missing
\* and the generic clause answers
ResultOfNoTimeoutClause(outcome) ==
    CASE outcome = "exit0" ->
            [kind |-> "result", ok |-> TRUE, returncode |-> "0", error |-> "none"]
      [] outcome = "exit1" ->
            [kind |-> "result", ok |-> FALSE, returncode |-> "1", error |-> "none"]
      [] outcome = "FileNotFoundError" ->
            [kind |-> "result", ok |-> FALSE, returncode |-> "none",
             error |-> "binary not found"]
      [] OTHER ->
            [kind |-> "result", ok |-> FALSE, returncode |-> "none", error |-> "other"]

\* the dict _run_isolated returns for an outcome of subprocess.run
ResultOf(outcome) ==
    CASE outcome = "exit0" ->
            [kind |-> "result", ok |-> TRUE, returncode |-> "0", error |-> "none"]
      [] outcome = "exit1" ->
            [kind |-> "result", ok |-> FALSE, returncode |-> "1", error |-> "none"]
      [] outcome = "FileNotFoundError" ->
            [kind |-> "result", ok |-> FALSE, returncode |-> "none",
             error |-> "binary not found"]
      [] outcome = "TimeoutExpired" ->
            [kind |-> "result", ok |-> FALSE, returncode |-> "none",
             error |-> "command timed out"]
      [] OTHER ->
            [kind |-> "result", ok |-> FALSE, returncode |-> "none", error |-> "other"]

EmptyCommand ==
    [kind |-> "result", ok |-> FALSE, returncode |-> "none", error |-> "empty command"]

Raised(exc) ==
    [kind |-> "raised", ok |-> FALSE, returncode |-> "none", error |-> exc]

NoResult ==
    [kind |-> "none", ok |-> FALSE, returncode |-> "none", error |-> "none"]

NoExecutor == [persona |-> <<>>, whitelist |-> {}]

NotBuilt == [via |-> "none", requested |-> <<>>, error |-> "none"]

IdleCall ==
    [pc |-> "idle", tool |-> <<>>, args |-> <<>>, timeout |-> "absent",
     allowed |-> FALSE, argv |-> <<>>, env |-> {}, timeout_sec |-> "none",
     runner |-> "none", spawns |-> 0, childAlive |-> FALSE, result |-> NoResult,
     outcome |-> "none", duration |-> 0]

-----------------------------------------------------------------------------
(* The ambient environment.                                                *)

\* the values a variable of the environment may carry
EnvValues(k) ==
    IF k = K_PHYSICLAW_SANDBOX THEN SandboxValueInputs
    ELSE IF k = K_PHYSICLAW_PERSONA THEN {PersonaSECOPS}
    ELSE {SomeValue}

Environments ==
    LET keySets == {S \in SUBSET EnvKeyInputs : Cardinality(S) <= MaxEnvKeys}
        values  == UNION {EnvValues(k) : k \in EnvKeyInputs}
    IN  {e \in UNION {[S -> values] : S \in keySets} :
            \A k \in DOMAIN e : e[k] \in EnvValues(k)}

\* os.getenv(key, default)
getenv(env, key, default) == IF key \in DOMAIN env THEN env[key] ELSE default

-----------------------------------------------------------------------------
(* Building an executor.                                                   *)

\* ToolExecutor.__init__(persona) for a str argument: Persona(persona.lower())
\* raises ValueError for a value that is no member of the enum
ToolExecutorInit(via, requested, persona) ==
    LET p == Lower(persona)
    IN  IF p \in Persona
        THEN /\ executor' = [persona |-> p, whitelist |-> WhitelistFor(p)]
             /\ built' = [via |-> via, requested |-> requested, error |-> "none"]
        ELSE /\ executor' = executor
             /\ built' = [via |-> via, requested |-> requested, error |-> "ValueError"]

\* ToolExecutor(persona)
NewToolExecutor(persona) ==
    /\ call.pc = "idle"
    /\ ToolExecutorInit("ToolExecutor", persona, persona)
    /\ UNCHANGED <<environ, call>>
    /\ UNCHANGED <<wdVars, auditVars, bridgeVars, sandboxVars>>

\* cli.get_executor(persona): anything that is not "sre" becomes SECOPS
get_executor(persona) ==
    /\ call.pc = "idle"
    /\ LET p == Lower(IF persona # <<>> THEN persona
                      ELSE getenv(environ, K_PHYSICLAW_PERSONA, PersonaSRE))
       IN  ToolExecutorInit("get_executor", persona,
                            IF p = PersonaSRE THEN PersonaSRE ELSE PersonaSECOPS)
    /\ UNCHANGED <<environ, call>>
    /\ UNCHANGED <<wdVars, auditVars, bridgeVars, sandboxVars>>

-----------------------------------------------------------------------------
(* ToolExecutor.execute and ToolExecutor._run_isolated, step by step.      *)

\* a caller invokes execute(tool, *args, timeout=...)
ExecuteCall(tool, args, timeout) ==
    /\ executor # NoExecutor
    /\ call.pc = "idle"
    /\ call' = [IdleCall EXCEPT !.pc = "check", !.tool = tool, !.args = args,
                                !.timeout = timeout]
    /\ UNCHANGED <<environ, executor, built>>
    /\ UNCHANGED <<wdVars, auditVars, bridgeVars, sandboxVars>>

\* execute without the whitelist test: every tool goes to _run_isolated
ExecuteWithoutCheck ==
    /\ call.pc = "check"
    /\ call' = [call EXCEPT !.pc = "argv", !.allowed = TRUE]
    /\ UNCHANGED <<environ, executor, built>>
    /\ UNCHANGED <<wdVars, auditVars, bridgeVars, sandboxVars>>

\* execute, lines 87-89: the whitelist test, then SecurityViolation or
\* _run_isolated
ExecuteCheck ==
    /\ call.pc = "check"
    /\ LET ok == allowed(executor.whitelist, call.tool)
       IN  call' = IF ok
                   THEN [call EXCEPT !.pc = "argv", !.allowed = TRUE]
                   ELSE [call EXCEPT !.pc = "done", !.allowed = FALSE,
                                     !.result = Raised("SecurityViolation")]
    /\ UNCHANGED <<environ, executor, built>>
    /\ UNCHANGED <<wdVars, auditVars, bridgeVars, sandboxVars>>

\* _run_isolated, lines 128-132: argv, the empty-command return, the clean
\* environment and the timeout
RunIsolatedPrepare ==
    /\ call.pc = "argv"
    /\ LET a == _tool_to_argv(call.tool, call.args)
       IN  call' =
             IF ~a.ok
             THEN [call EXCEPT !.pc = "done", !.result = Raised("ValueError")]
             ELSE IF a.argv = <<>>
             THEN [call EXCEPT !.pc = "done", !.result = EmptyCommand]
             ELSE [call EXCEPT !.pc = "spawn", !.argv = a.argv,
                       !.env = _clean_env(environ, executor.persona),
                       !.timeout_sec = IF call.timeout = "numeric"
                                       THEN "request" ELSE "300"]
    /\ UNCHANGED <<environ, executor, built>>
    /\ UNCHANGED <<wdVars, auditVars, bridgeVars, sandboxVars>>

\* _run_isolated, lines 133-141: subprocess.run creates the child, or fails
\* to (FileNotFoundError, another OSError) and the except clauses of lines
\* 148-153 answer; a child that runs longer than timeout_sec ends in
\* TimeoutExpired, any other child in its exit status
RunIsolatedSpawn(outcome, duration) ==
    /\ call.pc = "spawn"
    /\ IF outcome \in Spawning
       THEN /\ (outcome = "TimeoutExpired")
                   <=> (duration > TimeoutSeconds(call.timeout_sec))
            /\ call' = [call EXCEPT !.pc = "running",
                            !.runner = RunnerFor(environ),
                            !.spawns = call.spawns + 1,
                            !.childAlive = TRUE,
                            !.outcome = outcome,
                            !.duration = duration]
       ELSE /\ duration = 0
            /\ call' = [call EXCEPT !.pc = "done",
                            !.runner = RunnerFor(environ),
                            !.outcome = outcome,
                            !.result = ResultOf(outcome)]
    /\ UNCHANGED <<environ, executor, built>>
    /\ UNCHANGED <<wdVars, auditVars, bridgeVars, sandboxVars>>

\* _run_isolated, lines 134-153: subprocess.run waits for the child; when
\* the timeout expires it kills the child, waits for it and raises
\* TimeoutExpired, which line 150 turns into the timeout result
RunIsolatedWait ==
    /\ call.pc = "running"
    /\ call' = [call EXCEPT !.pc = "done",
                    !.childAlive = FALSE,
                    !.result = ResultOf(call.outcome)]
    /\ UNCHANGED <<environ, executor, built>>
    /\ UNCHANGED <<wdVars, auditVars, bridgeVars, sandboxVars>>

\* the call is over; the caller has its result or its exception
ExecuteReturn ==
    /\ call.pc = "done"
    /\ call' = IdleCall
    /\ UNCHANGED <<environ, executor, built>>
    /\ UNCHANGED <<wdVars, auditVars, bridgeVars, sandboxVars>>


-----------------------------------------------------------------------------
(* security/sandbox.py: run_in_bwrap.                                      *)

\* BWRAP_BIN
BWRAP_BIN == <<"b","w","r","a","p">>

\* the path shutil.which(BWRAP_BIN) returns when the binary is on PATH
BwrapPath == <<"/","u","s","r","/","b","i","n","/","b","w","r","a","p">>

\* Python's None where a path or a directory is expected
NoPath == <<"None">>

\* shutil.which(BWRAP_BIN), line 65
which(found) == IF found THEN BwrapPath ELSE NoPath

D_usr == <<"/","u","s","r">>
D_bin == <<"/","b","i","n">>
D_lib == <<"/","l","i","b">>
D_lib64 == <<"/","l","i","b","6","4">>
D_etc == <<"/","e","t","c">>
D_tmp == <<"/","t","m","p">>
D_work == <<"/","w","o","r","k">>

\* the mounts _ro_bind_args tries, in order
RoBindMounts == <<D_usr, D_bin, D_lib, D_lib64, D_etc>>

F_ro_bind == <<"-","-","r","o","-","b","i","n","d">>
F_sep == <<"-","-">>

\* _ro_bind_args(), lines 41-52, on a file system with the directories dirs
RECURSIVE RoBindFrom(_, _)
RoBindFrom(dirs, i) ==
    IF i > Len(RoBindMounts) THEN <<>>
    ELSE (IF RoBindMounts[i] \in dirs
          THEN <<F_ro_bind, RoBindMounts[i], RoBindMounts[i]>> ELSE <<>>)
         \o RoBindFrom(dirs, i + 1)

_ro_bind_args(dirs) ==
    LET args == RoBindFrom(dirs, 1)
    IN  IF args = <<>> THEN <<F_ro_bind, D_usr, D_usr>> ELSE args

\* os.path.isabs
isabs(p) == StartsWith(p, <<"/">>)

\* lines 91-96: the directory bound into the sandbox and used as cwd; cwd is
\* the directory the caller passed or, for None and "", os.getcwd()
WorkOf(cwd, getcwd) ==
    LET first == IF cwd = NoPath \/ cwd = <<>> THEN getcwd ELSE cwd
        work  == IF Strip(first) = <<>> THEN D_tmp ELSE Strip(first)
    IN  work

Bindable(work, dirs) == isabs(work) /\ work \in dirs

\* lines 75-98: full_argv
FullArgv(bwrap, argv, cwd, allow_network, fs) ==
    LET work == WorkOf(cwd, fs.getcwd)
    IN  <<bwrap, <<"-","-","d","i","e","-","w","i","t","h","-","p","a","r","e","n","t">>, <<"-","-","n","e","w","-","s","e","s","s","i","o","n">>>>
        \o _ro_bind_args(fs.dirs)
        \o <<<<"-","-","d","e","v">>, <<"/","d","e","v">>, <<"-","-","p","r","o","c">>, <<"/","p","r","o","c">>, <<"-","-","t","m","p","f","s">>, D_tmp, <<"-","-","d","i","r">>, <<"/","r","u","n">>>>
        \o (IF allow_network THEN <<<<"-","-","u","n","s","h","a","r","e","-","a","l","l">>, <<"-","-","s","h","a","r","e","-","n","e","t">>>>
            ELSE <<<<"-","-","u","n","s","h","a","r","e","-","n","e","t">>>>)
        \o (IF Bindable(work, fs.dirs) THEN <<F_ro_bind, work, work>> ELSE <<>>)
        \o <<F_sep>> \o argv

\* bwrap_cwd of lines 92-96
BwrapCwd(cwd, fs) ==
    LET work == WorkOf(cwd, fs.getcwd)
    IN  IF Bindable(work, fs.dirs) THEN work ELSE D_tmp

\* env=env or os.environ, line 102
EnvFor(env, ambient) ==
    IF ~env.given \/ DOMAIN env.vars = {} THEN ambient ELSE env.vars

\* timeout_sec when the caller passes none, line 59
BwrapDefaultTimeout == 300

\* the dict of lines 67-72
BwrapNotFound ==
    [kind |-> "result", ok |-> FALSE, returncode |-> "none",
     error |-> "bwrap not found"]

\* the dict run_in_bwrap returns when a non-zero exit status is reported as
\* a failure without its code
BwrapResultOfDropCode(outcome) ==
    CASE outcome = "exit0" ->
            [kind |-> "result", ok |-> TRUE, returncode |-> "0", error |-> "none"]
      [] outcome = "exit1" ->
            [kind |-> "result", ok |-> FALSE, returncode |-> "none", error |-> "other"]
      [] outcome = "TimeoutExpired" ->
            [kind |-> "result", ok |-> FALSE, returncode |-> "none",
             error |-> "command timed out"]
      [] outcome = "FileNotFoundError" ->
            [kind |-> "result", ok |-> FALSE, returncode |-> "none",
             error |-> "bwrap or command not found"]
      [] OTHER ->
            [kind |-> "result", ok |-> FALSE, returncode |-> "none", error |-> "other"]

\* the dict run_in_bwrap returns for an outcome of subprocess.run, lines 99-119
BwrapResultOf(outcome) ==
    CASE outcome = "exit0" ->
            [kind |-> "result", ok |-> TRUE, returncode |-> "0", error |-> "none"]
      [] outcome = "exit1" ->
            [kind |-> "result", ok |-> FALSE, returncode |-> "1", error |-> "none"]
      [] outcome = "TimeoutExpired" ->
            [kind |-> "result", ok |-> FALSE, returncode |-> "none",
             error |-> "command timed out"]
      [] outcome = "FileNotFoundError" ->
            [kind |-> "result", ok |-> FALSE, returncode |-> "none",
             error |-> "bwrap or command not found"]
      [] OTHER ->
            [kind |-> "result", ok |-> FALSE, returncode |-> "none", error |-> "other"]

NoEnv == [given |-> FALSE, vars |-> <<>>]

IdleSandbox ==
    [pc |-> "idle", argv |-> <<>>, full_argv |-> <<>>, env |-> <<>>,
     cwd |-> <<>>, timeout_sec |-> 0, found |-> FALSE, spawns |-> 0,
     childAlive |-> FALSE, outcome |-> "none", duration |-> 0,
     result |-> NoResult]

\* run_in_bwrap when bwrap is missing and argv is run as it is
MissingBwrapFallback(argv, env, timeout_sec) ==
    [IdleSandbox EXCEPT !.pc = "spawn", !.argv = argv, !.full_argv = argv,
                        !.env = env, !.cwd = D_tmp, !.timeout_sec = timeout_sec]

\* lines 66-72: without the binary the call is over before anything is built
MissingBwrap(argv, env, timeout_sec) ==
    [IdleSandbox EXCEPT !.pc = "done", !.argv = argv, !.result = BwrapNotFound]

\* argv lists handed to run_in_bwrap
BwrapArgvInputs == {<<W_nmap>>, <<W_kubectl, W_get>>}

\* env arguments: None, an empty dict, a dict with one variable
BwrapEnvInputs ==
    {NoEnv, [given |-> TRUE, vars |-> <<>>],
     [given |-> TRUE, vars |-> [k \in {<<"P","A","T","H">>} |-> SomeValue]]}

\* cwd arguments: None, blanks, an absolute path, a relative path
BwrapCwdInputs == {NoPath, <<" ">>, D_work, <<"r","e","l">>}

\* timeout_sec arguments
BwrapTimeoutInputs == {RequestTimeout, BwrapDefaultTimeout}

\* the file system at the time of the call: the directories that exist and
\* the working directory of the process (NoPath when it has been removed)
FileSystems ==
    {[dirs |-> {D_usr, D_bin, D_lib, D_lib64, D_etc, D_tmp, D_work}, getcwd |-> D_work],
     [dirs |-> {D_usr, D_etc, D_tmp}, getcwd |-> D_tmp],
     [dirs |-> {D_tmp}, getcwd |-> NoPath]}

\* run_in_bwrap, lines 65-98: the lookup, then the command line; os.getcwd()
\* raises FileNotFoundError when it is needed and the directory is gone
RunInBwrapCall(argv, env, cwd, timeout_sec, allow_network, fs) ==
    /\ sandbox.pc = "idle"
    /\ call.pc = "idle"
    /\ LET bwrap == which(bwrapOnPath)
       IN  sandbox' =
             IF bwrap = NoPath
             THEN MissingBwrap(argv, EnvFor(env, environ), timeout_sec)
             ELSE IF (cwd = NoPath \/ cwd = <<>>) /\ fs.getcwd = NoPath
             THEN [IdleSandbox EXCEPT !.pc = "done", !.argv = argv, !.found = TRUE,
                                      !.result = Raised("FileNotFoundError")]
             ELSE [IdleSandbox EXCEPT !.pc = "spawn", !.argv = argv, !.found = TRUE,
                       !.full_argv = FullArgv(bwrap, argv, cwd, allow_network, fs),
                       !.env = EnvFor(env, environ),
                       !.cwd = BwrapCwd(cwd, fs),
                       !.timeout_sec = timeout_sec]
    /\ UNCHANGED bwrapOnPath
    /\ UNCHANGED <<execVars, wdVars, auditVars, bridgeVars>>

\* lines 100-107: subprocess.run creates the bwrap process, or fails to and
\* the except clauses of lines 116-119 answer
RunInBwrapSpawn(outcome, duration) ==
    /\ sandbox.pc = "spawn"
    /\ IF outcome \in Spawning
       THEN /\ (outcome = "TimeoutExpired") <=> (duration > sandbox.timeout_sec)
            /\ sandbox' = [sandbox EXCEPT !.pc = "running",
                               !.spawns = sandbox.spawns + 1,
                               !.childAlive = TRUE,
                               !.outcome = outcome,
                               !.duration = duration]
       ELSE /\ duration = 0
            /\ sandbox' = [sandbox EXCEPT !.pc = "done",
                               !.outcome = outcome,
                               !.result = BwrapResultOf(outcome)]
    /\ UNCHANGED bwrapOnPath
    /\ UNCHANGED <<execVars, wdVars, auditVars, bridgeVars>>

\* lines 100-119: subprocess.run waits for the process, kills it when the
\* timeout expires, and the outcome becomes the returned dict
RunInBwrapWait ==
    /\ sandbox.pc = "running"
    /\ sandbox' = [sandbox EXCEPT !.pc = "done",
                       !.childAlive = FALSE,
                       !.result = BwrapResultOf(sandbox.outcome)]
    /\ UNCHANGED bwrapOnPath
    /\ UNCHANGED <<execVars, wdVars, auditVars, bridgeVars>>

\* the caller has its dict or its exception
RunInBwrapReturn ==
    /\ sandbox.pc = "done"
    /\ sandbox' = IdleSandbox
    /\ UNCHANGED bwrapOnPath
    /\ UNCHANGED <<execVars, wdVars, auditVars, bridgeVars>>

-----------------------------------------------------------------------------
(* security/watchdog.py: addresses and SAFE_SUBNETS.                       *)

HexDigits == <<"0","1","2","3","4","5","6","7","8","9","a","b","c","d","e","f">>

IsHexDigit(c) == \E i \in 1..16 : HexDigits[i] = LowerChar(c)
IsDecDigit(c) == \E i \in 1..10 : HexDigits[i] = c
DigitVal(c)   == (CHOOSE i \in 1..16 : HexDigits[i] = LowerChar(c)) - 1

\* int(s, base) for a non-empty string of digits of that base
RECURSIVE IntOf(_, _)
IntOf(s, base) ==
    IF s = <<>> THEN 0
    ELSE IntOf(SubSeq(s, 1, Len(s) - 1), base) * base + DigitVal(s[Len(s)])

\* str.split(sep) for a one-character separator: empty parts are kept
RECURSIVE SplitOnFrom(_, _, _, _, _)
SplitOnFrom(s, sep, i, cur, acc) ==
    IF i > Len(s) THEN Append(acc, cur)
    ELSE IF s[i] = sep
         THEN SplitOnFrom(s, sep, i + 1, <<>>, Append(acc, cur))
         ELSE SplitOnFrom(s, sep, i + 1, Append(cur, s[i]), acc)

SplitOn(s, sep) == SplitOnFrom(s, sep, 1, <<>>, <<>>)

HasChar(s, c) == \E i \in 1..Len(s) : s[i] = c

Invalid == [ok |-> FALSE, version |-> "none", parts |-> <<>>]

\* ipaddress.IPv4Address(s): four decimal octets, at most three digits each,
\* no leading zero, none above 255
IsOctet(p) ==
    /\ Len(p) \in 1..3
    /\ \A i \in 1..Len(p) : IsDecDigit(p[i])
    /\ (Len(p) > 1 => p[1] # "0")
    /\ IntOf(p, 10) <= 255

ParseIPv4(s) ==
    LET ps == SplitOn(s, ".")
    IN  IF Len(ps) = 4 /\ \A i \in 1..4 : IsOctet(ps[i])
        THEN [ok |-> TRUE, version |-> "v4", parts |-> [i \in 1..4 |-> IntOf(ps[i], 10)]]
        ELSE Invalid

IsHextet(p) == Len(p) \in 1..4 /\ \A i \in 1..Len(p) : IsHexDigit(p[i])

\* ipaddress.IPv6Address(s) without a scope id: eight hextets, one "::" may
\* stand for a run of zero hextets, the last part may be a dotted IPv4 address
ParseIPv6(s) ==
    LET raw == SplitOn(s, ":")
        last == raw[Len(raw)]
        dotted == HasChar(last, ".")
        v4 == ParseIPv4(last)
        \* an embedded IPv4 address becomes two parts; they are kept as numbers
        n == IF dotted THEN Len(raw) + 1 ELSE Len(raw)
        isEmpty(i) == IF dotted /\ i >= n - 1 THEN FALSE ELSE raw[i] = <<>>
        okPart(i) == IF dotted /\ i >= n - 1 THEN TRUE ELSE IsHextet(raw[i])
        val(i) == IF dotted /\ i = n - 1 THEN v4.parts[1] * 256 + v4.parts[2]
                  ELSE IF dotted /\ i = n THEN v4.parts[3] * 256 + v4.parts[4]
                  ELSE IntOf(raw[i], 16)
        skips == {i \in 2..(n - 1) : isEmpty(i)}
        skip == CHOOSE i \in skips : TRUE
        hi == IF isEmpty(1) THEN skip - 2 ELSE skip - 1
        lo == IF isEmpty(n) THEN n - skip - 1 ELSE n - skip
    IN  IF Len(raw) < 3 \/ (dotted /\ ~v4.ok) \/ n > 9 \/ Cardinality(skips) > 1
        THEN Invalid
        ELSE IF skips = {}
        THEN IF n = 8 /\ \A i \in 1..8 : okPart(i)
             THEN [ok |-> TRUE, version |-> "v6", parts |-> [i \in 1..8 |-> val(i)]]
             ELSE Invalid
        ELSE IF /\ (isEmpty(1) => hi = 0)
                /\ (isEmpty(n) => lo = 0)
                /\ hi + lo <= 7
                /\ \A i \in 1..hi : okPart(i)
                /\ \A i \in (n - lo + 1)..n : okPart(i)
             THEN [ok |-> TRUE, version |-> "v6",
                   parts |-> [i \in 1..8 |->
                       IF i <= hi THEN val(i)
                       ELSE IF i > 8 - lo THEN val(n - (8 - i))
                       ELSE 0]]
             ELSE Invalid

\* ipaddress.ip_address(s): IPv4 first, then IPv6, else ValueError
ip_address(s) ==
    LET v4 == ParseIPv4(s)
    IN  IF v4.ok THEN v4 ELSE ParseIPv6(s)

RECURSIVE Pow2(_)
Pow2(n) == IF n = 0 THEN 1 ELSE 2 * Pow2(n - 1)

\* "ip in net" of the ipaddress module: same version and the first
\* net.prefixlen bits agree, compared part by part (octets or hextets)
InNetwork(ip, net) ==
    LET w == IF ip.version = "v4" THEN 8 ELSE 16
    IN  /\ ip.version = net.version
        /\ \A j \in 1..Len(ip.parts) :
              IF j * w <= net.prefixlen
              THEN ip.parts[j] = net.parts[j]
              ELSE IF (j - 1) * w < net.prefixlen
              THEN ip.parts[j] \div Pow2(j * w - net.prefixlen)
                   = net.parts[j] \div Pow2(j * w - net.prefixlen)
              ELSE TRUE

SAFE_SUBNETS == <<
    [version |-> "v4", parts |-> <<127, 0, 0, 0>>, prefixlen |-> 8],
    [version |-> "v6", parts |-> <<0, 0, 0, 0, 0, 0, 0, 1>>, prefixlen |-> 128],
    [version |-> "v4", parts |-> <<10, 0, 0, 0>>, prefixlen |-> 8],
    [version |-> "v4", parts |-> <<172, 16, 0, 0>>, prefixlen |-> 12],
    [version |-> "v4", parts |-> <<192, 168, 0, 0>>, prefixlen |-> 16],
    [version |-> "v4", parts |-> <<169, 254, 0, 0>>, prefixlen |-> 16],
    [version |-> "v6", parts |-> <<64512, 0, 0, 0, 0, 0, 0, 0>>, prefixlen |-> 7],
    [version |-> "v6", parts |-> <<65152, 0, 0, 0, 0, 0, 0, 0>>, prefixlen |-> 10]
>>

\* _ip_in_safe_subnets(ip_str)
_ip_in_safe_subnets(ip_str) ==
    IF ip_str = <<>> \/ ip_str = <<"*">>
    THEN TRUE
    ELSE LET s1 == IF HasChar(ip_str, "%") THEN SplitOn(ip_str, "%")[1] ELSE ip_str
             s2 == IF HasChar(s1, ":") /\ ~HasChar(s1, "]")
                   THEN SplitOn(s1, ":")[1] ELSE s1
             ip == ip_address(s2)
         IN  ip.ok /\ \E i \in 1..Len(SAFE_SUBNETS) : InNetwork(ip, SAFE_SUBNETS[i])

-----------------------------------------------------------------------------
(* security/watchdog.py: the polling loop.                                 *)

\* a connection as _check_connections reads it: raddr is None or an address
NoRaddr == [present |-> FALSE, ip |-> <<>>]
Raddr(ip) == [present |-> TRUE, ip |-> ip]

\* remote addresses of the connections the model opens
IpInputs == {
    <<"1","2","7",".","0",".","0",".","1">>,
    <<"1","0",".","1",".","2",".","3">>,
    <<"1","7","2",".","1","6",".","0",".","1">>,
    <<"1","7","2",".","3","2",".","0",".","1">>,
    <<"1","9","2",".","1","6","8",".","1",".","1">>,
    <<"1","6","9",".","2","5","4",".","1",".","1">>,
    <<"8",".","8",".","8",".","8">>,
    <<"1","9","2",".","1","6","8",".","1",".","1",":","4","4","3">>,
    <<"8",".","8",".","8",".","8",":","5","3">>,
    <<":",":","1">>,
    <<"f","e","8","0",":",":","1">>,
    <<"f","e","8","0",":",":","1","%","e","t","h","0">>,
    <<"f","c","0","0",":",":","1">>,
    <<"f","d","1","2",":","3","4","5","6",":",":","1">>,
    <<"2","0","0","1",":","d","b","8",":",":","1">>,
    <<":",":","f","f","f","f",":","8",".","8",".","8",".","8">>,
    <<"[",":",":","1","]",":","4","4","3">>,
    <<"n","o","t","-","a","n","-","i","p">>,
    <<"*">>
}

\* the connections the model opens: every address as an ESTABLISHED
\* connection, and a few in the other states psutil reports
ConnInputs ==
    {[status |-> "ESTABLISHED", raddr |-> Raddr(ip)] : ip \in IpInputs}
    \cup {[status |-> "SYN_SENT", raddr |-> Raddr(ip)] :
             ip \in {<<"8",".","8",".","8",".","8">>, <<"1","2","7",".","0",".","0",".","1">>}}
    \cup {[status |-> "TIME_WAIT", raddr |-> Raddr(<<"8",".","8",".","8",".","8">>)],
          [status |-> "LISTEN", raddr |-> NoRaddr],
          [status |-> "ESTABLISHED", raddr |-> NoRaddr]}

\* how the enumeration psutil.Process(pid).connections() can end
EnumOutcomes == {"ok", "NoSuchProcess", "AccessDenied", "Exception"}

\* a check that looks at connections in every state
RECURSIVE ViolationsOfAnyStatus(_)
ViolationsOfAnyStatus(cs) ==
    IF cs = <<>> THEN <<>>
    ELSE LET c == Head(cs)
             rest == ViolationsOfAnyStatus(Tail(cs))
         IN  IF ~c.raddr.present THEN rest
             ELSE IF ~_ip_in_safe_subnets(c.raddr.ip)
                  THEN <<[ip |-> c.raddr.ip, status |-> c.status]>> \o rest
                  ELSE rest

\* _check_connections(pid): the (ip, status) of the connections outside
\* SAFE_SUBNETS, in the order psutil lists them
RECURSIVE ViolationsOf(_)
ViolationsOf(cs) ==
    IF cs = <<>> THEN <<>>
    ELSE LET c == Head(cs)
             rest == ViolationsOf(Tail(cs))
         IN  IF c.status \notin {"ESTABLISHED", "SYN_SENT"} THEN rest
             ELSE IF ~c.raddr.present THEN rest
             ELSE IF ~_ip_in_safe_subnets(c.raddr.ip)
                  THEN <<[ip |-> c.raddr.ip, status |-> c.status]>> \o rest
                  ELSE rest

_check_connections(psutilPresent, enum, cs) ==
    IF ~psutilPresent THEN <<>>
    ELSE IF enum # "ok" THEN <<>>
    ELSE ViolationsOf(cs)

\* what sys.exit(1) does to the process when the watchdog thread calls it:
\* SystemExit is raised in that thread only and ends the thread, the
\* interpreter keeps running
ProcessAfterSysExit(p) == p

\* start_egress_watchdog has not been called
NotStarted == [returned |-> "not called", log |-> "none"]

\* a start that creates the thread whether psutil is there or not
ThreadAfterStartUnchecked(psutilPresent) == "Watching"

\* start_egress_watchdog, lines 104-115: the thread is created and started
\* only when psutil was imported
ThreadAfterStart(psutilPresent) ==
    IF psutilPresent THEN "Watching" ELSE "Stopped"

\* start_egress_watchdog(): without psutil the warning of line 105 and
\* None, else the thread and the info line of line 115
start_egress_watchdog ==
    /\ wdThread = "Stopped"
    /\ process = "running"
    /\ started = NotStarted
    /\ wdThread' = ThreadAfterStart(psutilOK)
    /\ started' = IF psutilOK
                  THEN [returned |-> "thread", log |-> "info: started"]
                  ELSE [returned |-> "None", log |-> "warning: disabled"]
    /\ UNCHANGED <<psutilOK, process, conns, detected, polled>>
    /\ UNCHANGED <<execVars, auditVars, bridgeVars, sandboxVars>>

\* the process (a tool, a library) opens a connection; the connections of
\* a process whose watchdog thread has ended are read by nobody and are not
\* followed further
ConnOpen(c) ==
    /\ process = "running"
    /\ wdThread # "Exited"
    /\ Len(conns) < MaxConns
    /\ conns' = Append(conns, c)
    /\ UNCHANGED <<psutilOK, wdThread, started, process, detected, polled>>
    /\ UNCHANGED <<execVars, auditVars, bridgeVars, sandboxVars>>

\* the oldest connection is closed
ConnClose ==
    /\ process = "running"
    /\ wdThread # "Exited"
    /\ conns # <<>>
    /\ conns' = Tail(conns)
    /\ UNCHANGED <<psutilOK, wdThread, started, process, detected, polled>>
    /\ UNCHANGED <<execVars, auditVars, bridgeVars, sandboxVars>>

\* one iteration of _watchdog_loop: sleep, _check_connections, and on a
\* violation the critical log lines and sys.exit(1)
WatchdogPoll(enum) ==
    /\ wdThread = "Watching"
    /\ process = "running"
    /\ LET violations == _check_connections(psutilOK, enum, conns)
       IN  /\ detected' = violations
           /\ polled' = enum
           /\ IF violations # <<>>
              THEN /\ wdThread' = "Exited"
                   /\ process' = ProcessAfterSysExit(process)
              ELSE UNCHANGED <<wdThread, process>>
    /\ UNCHANGED <<psutilOK, started, conns>>
    /\ UNCHANGED <<execVars, auditVars, bridgeVars, sandboxVars>>

-----------------------------------------------------------------------------
(* core/audit.py: the append-only ledger and the counters.                 *)

\* threads that call audit_log
AuditThreads == {"t1", "t2"}

NoThread == "none"

\* the calls the model issues: an event kind and the persona keyword of the
\* payload ("absent" when the caller gives none); "note" stands for any
\* event kind without a counter
AuditCallInputs == {
    [event |-> "goal", persona |-> "sre"],
    [event |-> "goal", persona |-> "absent"],
    [event |-> "tool_call", persona |-> "sre"],
    [event |-> "security_violation", persona |-> "sre"],
    [event |-> "egress_block", persona |-> "absent"],
    [event |-> "auth_denied", persona |-> "secops"],
    [event |-> "note", persona |-> "sre"]
}

\* the calls a thread issues: the first thread every kind, the second one
\* a kind with a counter and a kind without
CallInputsOf(t) ==
    IF t = "t1" THEN AuditCallInputs
    ELSE {c \in AuditCallInputs : c.persona = "sre" /\ c.event \in {"goal", "note"}}

\* the counter and the label key of an event, as audit_log lines 73-89
\* choose them; str(payload.get("persona", "unknown"))
PersonaLabel(p) == IF p = "absent" THEN "unknown" ELSE p

CounterOf(event) ==
    CASE event = "goal" -> "goals_total"
      [] event = "tool_call" -> "tool_calls_total"
      [] event = "security_violation" -> "security_violations_total"
      [] event = "egress_block" -> "egress_blocks_total"
      [] event = "auth_denied" -> "auth_denied_total"
      [] OTHER -> "none"

CounterNames == {"goals_total", "tool_calls_total", "security_violations_total",
                 "egress_blocks_total", "auth_denied_total"}

\* _counter_key(labels): the label set of the event; tool_call carries the
\* payload's tool and outcome as well, egress_block carries no label
LabelsOf(event, persona) ==
    CASE event = "tool_call" -> <<PersonaLabel(persona), "unknown", "unknown">>
      [] event = "egress_block" -> <<>>
      [] OTHER -> <<PersonaLabel(persona)>>

LabelKeys == {LabelsOf(c.event, c.persona) : c \in AuditCallInputs}
                \cup {<<"data_architect">>}

\* _counters[counter].get(key, 0)
CounterGet(cs, counter, key) == cs[counter][key]

\* a lock that never blocks
CanAcquireNoLock(holder) == TRUE

\* threading.Lock: acquire succeeds only while nobody holds the lock
CanAcquire(holder) == holder = NoThread

IdleThread ==
    [pc |-> "idle", event |-> "none", persona |-> "absent", id |-> 0, seen |-> 0]

\* the two writes that carry the line of call id to the file
LineHead(id) == [id |-> id, part |-> "head"]
LineRest(id) == [id |-> id, part |-> "rest"]

\* a line that was in the file before the process started
OldLine == [id |-> 0, part |-> "line"]

\* open(path, "a"): every write goes to the end of the file
AppendTo(file, chunk) == Append(file, chunk)

\* the entry of call id in the serialization order, with a new status
SetStatus(order, id, status) ==
    [i \in DOMAIN order |->
        IF order[i].id = id THEN [id |-> id, status |-> status] ELSE order[i]]

\* audit_log, lines 61-64: the record, the line and _audit_path(), whose
\* mkdir raises OSError out of audit_log
AuditLogCall(t, c, mkdirOk) ==
    /\ threads[t].pc = "idle"
    /\ issued < MaxCalls
    /\ issued' = issued + 1
    /\ threads' = [threads EXCEPT ![t] =
            [pc |-> IF mkdirOk THEN "lock" ELSE "raised",
             event |-> c.event, persona |-> c.persona, id |-> issued + 1,
             seen |-> 0]]
    /\ UNCHANGED <<auditFile, earlier, lockHolder, counters, serialized>>
    /\ UNCHANGED <<returned, scrape>>
    /\ UNCHANGED <<execVars, wdVars, bridgeVars, sandboxVars>>

\* line 66: with _lock
AuditAcquire(t) ==
    /\ threads[t].pc = "lock"
    /\ CanAcquire(lockHolder)
    /\ lockHolder' = t
    /\ serialized' = Append(serialized, [id |-> threads[t].id, status |-> "open"])
    /\ threads' = [threads EXCEPT ![t].pc = "open"]
    /\ UNCHANGED <<auditFile, earlier, counters, issued>>
    /\ UNCHANGED <<returned, scrape>>
    /\ UNCHANGED <<execVars, wdVars, bridgeVars, sandboxVars>>

\* lines 67-68: open(path, "a") and the first bytes of the line; an OSError
\* leaves the with blocks, which releases the lock, and is logged (69-70)
AuditOpenWrite(t, ok) ==
    /\ threads[t].pc = "open"
    /\ IF ok
       THEN /\ auditFile' = AppendTo(auditFile, LineHead(threads[t].id))
            /\ serialized' = SetStatus(serialized, threads[t].id, "head")
            /\ threads' = [threads EXCEPT ![t].pc = "write"]
            /\ UNCHANGED lockHolder
       ELSE /\ serialized' = SetStatus(serialized, threads[t].id, "open_failed")
            /\ threads' = [threads EXCEPT ![t].pc = "count"]
            /\ lockHolder' = NoThread
            /\ UNCHANGED auditFile
    /\ UNCHANGED <<earlier, counters, issued>>
    /\ UNCHANGED <<returned, scrape>>
    /\ UNCHANGED <<execVars, wdVars, bridgeVars, sandboxVars>>

\* line 68 and the end of the with blocks: the rest of the line reaches the
\* file and the lock is released; an OSError loses the rest of the line
AuditWriteRest(t, ok) ==
    /\ threads[t].pc = "write"
    /\ auditFile' = IF ok THEN AppendTo(auditFile, LineRest(threads[t].id))
                          ELSE auditFile
    /\ serialized' = SetStatus(serialized, threads[t].id,
                                IF ok THEN "written" ELSE "write_failed")
    /\ lockHolder' = NoThread
    /\ threads' = [threads EXCEPT ![t].pc = "count"]
    /\ UNCHANGED <<earlier, counters, issued>>
    /\ UNCHANGED <<returned, scrape>>
    /\ UNCHANGED <<execVars, wdVars, bridgeVars, sandboxVars>>

\* lines 73-89: an event kind without a counter ends the call
AuditNoCounter(t) ==
    /\ threads[t].pc = "count"
    /\ CounterOf(threads[t].event) = "none"
    /\ threads' = [threads EXCEPT ![t].pc = "done"]
    /\ UNCHANGED <<auditFile, earlier, lockHolder, counters, serialized, issued>>
    /\ UNCHANGED <<returned, scrape>>
    /\ UNCHANGED <<execVars, wdVars, bridgeVars, sandboxVars>>

\* _inc, line 51: with _lock
IncAcquire(t) ==
    /\ threads[t].pc = "count"
    /\ CounterOf(threads[t].event) # "none"
    /\ CanAcquire(lockHolder)
    /\ lockHolder' = t
    /\ threads' = [threads EXCEPT ![t].pc = "inc"]
    /\ UNCHANGED <<auditFile, earlier, counters, serialized, issued>>
    /\ UNCHANGED <<returned, scrape>>
    /\ UNCHANGED <<execVars, wdVars, bridgeVars, sandboxVars>>

\* _inc, lines 52-53: the key and the read of _counters[counter].get(key, 0)
IncRead(t) ==
    /\ threads[t].pc = "inc"
    /\ LET c == CounterOf(threads[t].event)
           k == LabelsOf(threads[t].event, threads[t].persona)
       IN  threads' = [threads EXCEPT ![t].pc = "store",
                                      ![t].seen = CounterGet(counters, c, k)]
    /\ UNCHANGED <<auditFile, earlier, lockHolder, counters, serialized, issued>>
    /\ UNCHANGED <<returned, scrape>>
    /\ UNCHANGED <<execVars, wdVars, bridgeVars, sandboxVars>>

\* _inc, line 53: the store of the value read plus one, and the release of
\* the lock
IncUpdate(t) ==
    /\ threads[t].pc = "store"
    /\ LET c == CounterOf(threads[t].event)
           k == LabelsOf(threads[t].event, threads[t].persona)
       IN  counters' = [counters EXCEPT ![c][k] = threads[t].seen + 1]
    /\ lockHolder' = NoThread
    /\ threads' = [threads EXCEPT ![t].pc = "done"]
    /\ UNCHANGED <<auditFile, earlier, serialized, issued>>
    /\ UNCHANGED <<returned, scrape>>
    /\ UNCHANGED <<execVars, wdVars, bridgeVars, sandboxVars>>

\* audit_log is over: it returned, or raised the OSError of mkdir
AuditLogReturn(t) ==
    /\ threads[t].pc \in {"done", "raised"}
    /\ returned' =
          IF threads[t].pc = "done" /\ CounterOf(threads[t].event) # "none"
          THEN [returned EXCEPT ![CounterOf(threads[t].event)]
                                 [LabelsOf(threads[t].event, threads[t].persona)] = @ + 1]
          ELSE returned
    /\ threads' = [threads EXCEPT ![t] = IdleThread]
    /\ UNCHANGED <<auditFile, earlier, lockHolder, counters, serialized, issued>>
    /\ UNCHANGED scrape
    /\ UNCHANGED <<execVars, wdVars, bridgeVars, sandboxVars>>

\* the thread that serves GET /metrics
Scraper == "scraper"

\* the order in which get_prometheus_metrics reads the counters
RenderOrder == <<"goals_total", "tool_calls_total", "security_violations_total",
                 "egress_blocks_total", "auth_denied_total">>

\* sum(d.values())
RECURSIVE SumOver(_, _)
SumOver(d, keys) ==
    IF keys = {} THEN 0
    ELSE LET k == CHOOSE x \in keys : TRUE
         IN  d[k] + SumOver(d, keys \ {k})

\* the sample lines of one counter, as pairs of label set and value: one
\* line per key of the dict, a single unlabelled total for egress blocks
Rendered(cs, counter) ==
    IF counter = "egress_blocks_total"
    THEN {<<<<>>, SumOver(cs[counter], LabelKeys)>>}
    ELSE {<<k, cs[counter][k]>> : k \in {x \in LabelKeys : cs[counter][x] > 0}}

IdleScrape == [pc |-> "idle", next |-> 1, lines |-> [c \in CounterNames |-> {}]]

\* get_prometheus_metrics, lines 114-118: the header lines, then with _lock
ScrapeAcquire ==
    /\ scrape.pc = "idle"
    /\ CanAcquire(lockHolder)
    /\ lockHolder' = Scraper
    /\ scrape' = [IdleScrape EXCEPT !.pc = "render"]
    /\ UNCHANGED <<auditFile, earlier, threads, counters, serialized, issued, returned>>
    /\ UNCHANGED <<execVars, wdVars, bridgeVars, sandboxVars>>

\* lines 119-156: the loop over the next counter of the render
ScrapeRead ==
    /\ scrape.pc = "render"
    /\ scrape.next <= Len(RenderOrder)
    /\ LET c == RenderOrder[scrape.next]
       IN  scrape' = [scrape EXCEPT !.next = scrape.next + 1,
                                    !.lines[c] = Rendered(counters, c)]
    /\ UNCHANGED <<auditFile, earlier, lockHolder, threads, counters, serialized,
                   issued, returned>>
    /\ UNCHANGED <<execVars, wdVars, bridgeVars, sandboxVars>>

\* the end of the with block of line 118 and the return of line 168
ScrapeReturn ==
    /\ scrape.pc = "render"
    /\ scrape.next > Len(RenderOrder)
    /\ lockHolder' = NoThread
    /\ scrape' = IdleScrape
    /\ UNCHANGED <<auditFile, earlier, threads, counters, serialized, issued, returned>>
    /\ UNCHANGED <<execVars, wdVars, bridgeVars, sandboxVars>>

-----------------------------------------------------------------------------
(* bridge.py: the authorization gate.                                      *)

K_PHYSICLAW_API_KEYS == <<"P","H","Y","S","I","C","L","A","W","_","A","P","I","_","K","E","Y","S">>
K_PHYSICLAW_REQUIRE_AUTH == <<"P","H","Y","S","I","C","L","A","W","_","R","E","Q","U","I","R","E","_","A","U","T","H">>
K_PHYSICLAW_JWT_SECRET == <<"P","H","Y","S","I","C","L","A","W","_","J","W","T","_","S","E","C","R","E","T">>

\* the personas submit_goal accepts, line 235
BridgePersonas == {PersonaSRE, PersonaSECOPS, P_data_architect}

\* the persona of a grant that is valid for any persona
Wildcard == <<"*">>

\* a header the request does not carry: headers.get(...) is None
NoHeader == <<"None">>

\* cli._normalize_persona_str: case-insensitive, whitespace-collapsed form
\* of a persona string
_normalize_persona_str(s) == JoinSpace(Split(Lower(s)))

\* s.split(sep, 1)
SplitOnce(s, sep) ==
    IF ~HasChar(s, sep) THEN <<s>>
    ELSE LET i == CHOOSE k \in 1..Len(s) :
                     s[k] = sep /\ \A j \in 1..(k - 1) : s[j] # sep
         IN  <<SubSeq(s, 1, i - 1), SubSeq(s, i + 1, Len(s))>>

\* _load_api_key_map, lines 69-80: the grant one part of the list adds, as
\* a set of <<persona, key>> pairs
GrantOf(rawPart) ==
    LET part == Strip(rawPart)
    IN  IF part = <<>> THEN {}
        ELSE LET pk == IF HasChar(part, ":")
                       THEN <<_normalize_persona_str(SplitOnce(part, ":")[1]),
                              SplitOnce(part, ":")[2]>>
                       ELSE <<Wildcard, part>>
             IN  IF pk[2] = <<>> THEN {} ELSE {pk}

\* _load_api_key_map, lines 64-81, for an empty cache: the mapping
\* persona -> set of keys as the set of its <<persona, key>> pairs
ParseApiKeys(env) ==
    LET raw == Strip(getenv(env, K_PHYSICLAW_API_KEYS, <<>>))
        parts == SplitOn(raw, ",")
    IN  IF raw = <<>> THEN {}
        ELSE UNION {GrantOf(parts[i]) : i \in DOMAIN parts}

\* _API_KEY_MAP is None
NotLoaded == [loaded |-> FALSE, map |-> {}]

\* _load_api_key_map: the cached mapping, parsed on first use
_load_api_key_map(cache, env) ==
    IF cache.loaded THEN cache.map ELSE ParseApiKeys(env)

\* keys_map.get(persona, set())
KeysOf(keys_map, persona) == {g[2] : g \in {x \in keys_map : x[1] = persona}}

AuthRequiredValues == {<<"1">>, <<"t","r","u","e">>, <<"y","e","s">>, <<"r","e","q","u","i","r","e","d">>}

\* _auth_required
_auth_required(env) ==
    Lower(Strip(getenv(env, K_PHYSICLAW_REQUIRE_AUTH, <<>>))) \in AuthRequiredValues

\* the secret the tokens of the model are signed with
SigningSecret == <<"s">>

NoClaims == [ok |-> FALSE, persona |-> <<>>, role |-> <<>>, scope |-> <<>>]

\* jwt.decode(token, secret, algorithms=["HS256"]): the claims of the tokens
\* signed with SigningSecret; ok = FALSE when decode raises (bad signature,
\* malformed or expired token); a claim the token lacks is <<>>
JwtDecode(token, secret) ==
    IF secret # SigningSecret THEN NoClaims
    ELSE CASE token = <<"a">> ->
                [ok |-> TRUE, persona |-> <<"s","r","e">>, role |-> <<>>, scope |-> <<>>]
           [] token = <<"b">> ->
                [ok |-> TRUE, persona |-> <<>>, role |-> <<"S","e","c","O","p","s"," ">>,
                 scope |-> <<"p","h","y","s","i","c","l","a","w",":","g","o","a","l"," ","r","e","a","d">>]
           [] token = <<"c">> ->
                [ok |-> TRUE, persona |-> <<>>, role |-> <<>>, scope |-> <<"o","t","h","e","r">>]
           [] token = <<"d">> ->
                [ok |-> TRUE, persona |-> <<>>, role |-> <<>>, scope |-> <<>>]
           [] OTHER -> NoClaims

GoalScopes == {<<"p","h","y","s","i","c","l","a","w",":","g","o","a","l">>, <<"p","h","y","s","i","c","l","a","w",":","*">>}

\* _validate_jwt(request, persona)
_validate_jwt(env, jwtInstalled, auth, persona) ==
    LET secret == Strip(getenv(env, K_PHYSICLAW_JWT_SECRET, <<>>))
        token  == Strip(SplitOnce(auth, " ")[2])
        claims == JwtDecode(token, secret)
        claim_persona ==
            Lower(Strip(IF claims.persona # <<>> THEN claims.persona ELSE claims.role))
        scopes == Split(claims.scope)
    IN  /\ secret # <<>>
        /\ auth # NoHeader /\ auth # <<>>
        /\ StartsWith(Lower(auth), <<"b","e","a","r","e","r"," ">>)
        /\ token # <<>>
        /\ jwtInstalled
        /\ claims.ok
        /\ ~(claim_persona # <<>> /\ claim_persona # persona)
        /\ claims.scope # <<>> =>
              \E i \in DOMAIN scopes : scopes[i] \in GoalScopes

\* the answer of line 147 when no key is configured and nothing is required
NoKeysAnswerOpen(required) == TRUE

\* _is_authorized, lines 146-147: no keys configured
NoKeysAnswer(required) == ~required

\* the keys of every persona of the map
AllowedKeysAnyPersona(keys_map, persona) == {g[2] : g \in keys_map}

\* _is_authorized, lines 149-151: the keys that admit the persona
AllowedKeys(keys_map, persona) ==
    KeysOf(keys_map, persona) \cup KeysOf(keys_map, Wildcard)

\* _is_authorized(request, persona), given the credential map in the cache
_is_authorized(env, cache, jwtInstalled, header_key, auth, persona) ==
    IF _validate_jwt(env, jwtInstalled, auth, persona) THEN TRUE
    ELSE LET keys_map == _load_api_key_map(cache, env)
             allowedKeys == AllowedKeys(keys_map, persona)
         IN  IF keys_map = {} THEN NoKeysAnswer(_auth_required(env))
             ELSE IF _auth_required(env)
             THEN ~(header_key = NoHeader \/ header_key = <<>>
                    \/ header_key \notin allowedKeys)
             ELSE IF header_key = NoHeader THEN TRUE
             ELSE header_key \in allowedKeys

\* _API_KEY_MAP after _is_authorized: line 142 is reached only when the
\* token did not admit the request
CacheAfter(env, cache, jwtInstalled, auth, persona) ==
    IF _validate_jwt(env, jwtInstalled, auth, persona) THEN cache
    ELSE [loaded |-> TRUE, map |-> _load_api_key_map(cache, env)]

\* the X-Physiclaw-Key headers of the requests
KeyHeaderInputs == {NoHeader, <<>>, <<"K","1">>, <<"K","2">>, <<"K","A">>}

\* the Authorization headers of the requests
AuthHeaderInputs == {NoHeader, <<"B","e","a","r","e","r"," ","a">>, <<"b","e","a","r","e","r"," ","b">>, <<"B","e","a","r","e","r"," ","c">>,
                     <<"B","e","a","r","e","r"," ","d">>, <<"B","e","a","r","e","r"," ","x">>, <<"B","e","a","r","e","r"," ">>, <<"B","a","s","i","c"," ","a">>}

\* the values of PHYSICLAW_API_KEYS
ApiKeysInputs == {<<"s","r","e",":","K","1",",","*",":","K","A">>, <<" ","S","R","E"," ",":","K","1",","," ",",","s","e","c","o","p","s",":","K","2",",","d","a","t","a","_","a","r","c","h","i","t","e","c","t",":">>,
                  <<"K","A">>, <<" ",","," ">>}

\* the values of PHYSICLAW_REQUIRE_AUTH
RequireAuthInputs == {<<"1">>, <<" ","R","e","q","u","i","r","e","d"," ">>, <<"0">>}

\* the values of PHYSICLAW_JWT_SECRET
JwtSecretInputs == {<<"s">>, <<" ","s"," ">>, <<"t">>}

\* the environments of the bridge: each of the three variables absent or
\* set to one of its values
BridgeEnvironments ==
    LET opt(k, vs) == {<<>>} \cup {[x \in {k} |-> v] : v \in vs}
    IN  {a @@ b @@ c : a \in opt(K_PHYSICLAW_API_KEYS, ApiKeysInputs),
                       b \in opt(K_PHYSICLAW_REQUIRE_AUTH, RequireAuthInputs),
                       c \in opt(K_PHYSICLAW_JWT_SECRET, JwtSecretInputs)}

\* req.persona is None
NoPersona == <<"None">>

IdleGoal ==
    [pc |-> "idle", persona_in |-> NoPersona, header_key |-> NoHeader,
     auth |-> NoHeader, persona |-> <<>>, authorized |-> FALSE,
     status |-> "none", audit |-> "none", l1 |-> FALSE, l2 |-> FALSE,
     tools |-> "none"]

IdleAuthz ==
    [pc |-> "idle", persona |-> <<>>, header_key |-> NoHeader, auth |-> NoHeader,
     jwt |-> FALSE, result |-> FALSE]

\* _is_authorized(request, persona) for a request with these two headers
IsAuthorizedCall(persona, header_key, auth) ==
    /\ authz.pc = "idle"
    /\ authz' = [pc |-> "done", persona |-> persona, header_key |-> header_key,
                 auth |-> auth,
                 jwt |-> _validate_jwt(environ, jwtOK, auth, persona),
                 result |-> _is_authorized(environ, _API_KEY_MAP, jwtOK,
                                           header_key, auth, persona)]
    /\ _API_KEY_MAP' = CacheAfter(environ, _API_KEY_MAP, jwtOK, auth, persona)
    /\ UNCHANGED <<jwtOK, goal>>
    /\ UNCHANGED <<sandboxVars, execVars, wdVars, auditVars>>

\* the caller has the answer
IsAuthorizedReturn ==
    /\ authz.pc = "done"
    /\ authz' = IdleAuthz
    /\ UNCHANGED <<_API_KEY_MAP, jwtOK, goal>>
    /\ UNCHANGED <<sandboxVars, execVars, wdVars, auditVars>>

-----------------------------------------------------------------------------
(* bridge.py: submit_goal.                                                 *)

\* what one audit_log call meets: _audit_path raises, open fails, the write
\* fails part-way, or the line is written
AuditOutcomes == {"mkdir_failed", "open_failed", "write_failed", "written"}

\* str(persona) of a persona the bridge accepts
PersonaName(p) ==
    CASE p = PersonaSRE -> "sre"
      [] p = PersonaSECOPS -> "secops"
      [] p = P_data_architect -> "data_architect"

\* audit.jsonl after one audit_log call made by a single thread
AuditFileAfter(file, id, outcome) ==
    CASE outcome = "written" -> AppendTo(AppendTo(file, LineHead(id)), LineRest(id))
      [] outcome = "write_failed" -> AppendTo(file, LineHead(id))
      [] OTHER -> file

\* the serialization order after that call
SerializedAfter(order, id, outcome) ==
    IF outcome = "mkdir_failed" THEN order
    ELSE Append(order, [id |-> id, status |-> outcome])

\* _counters after that call: nothing is counted when _audit_path raised
CountersAfter(cs, event, persona, outcome) ==
    LET c == CounterOf(event)
        k == LabelsOf(event, persona)
    IN  IF outcome = "mkdir_failed" \/ c = "none" THEN cs
        ELSE [cs EXCEPT ![c][k] = CounterGet(cs, c, k) + 1]

\* a handler that records the goal before it looks at the decision
AuditEventGoalFirst(authorized) == "goal"

\* lines 238-245: the event the handler audits, auth_denied for a denied
\* request and goal for an admitted one
AuditEventFor(authorized) == IF authorized THEN "goal" ELSE "auth_denied"

\* what the memory tiers answer to get_memory and the two writes
MemoryOutcomes == {"ok", "failed"}

\* resolve_goal_to_tools: the whitelist the response lists, by name
resolve_goal_to_tools(persona) ==
    LET p == _normalize_persona_str(persona)
    IN  IF p = PersonaSRE THEN "SRE_WHITELIST"
        ELSE IF p = PersonaSECOPS THEN "SECOPS_WHITELIST"
        ELSE IF p = P_data_architect THEN "DATA_ARCHITECT_WHITELIST"
        ELSE "empty"

\* lines 240-242: the status of a denial
DenialStatus(header_key, auth) ==
    LET has_api_key == ~(header_key = NoHeader \/ header_key = <<>>)
        has_jwt == ~(auth = NoHeader \/ auth = <<>>)
    IN  IF ~(has_api_key \/ has_jwt) THEN "401" ELSE "403"

\* the persona fields of the requests
GoalPersonaInputs == {NoPersona, <<"s","r","e">>, <<" ","S","e","c","O","p","s">>, <<"r","o","o","t">>}

\* the X-Physiclaw-Key headers of the goal requests
GoalKeyInputs == {NoHeader, <<>>, <<"K","A">>}

\* the Authorization headers of the goal requests
GoalAuthInputs == {NoHeader, <<>>, <<"B","e","a","r","e","r"," ","a">>, <<"B","e","a","r","e","r"," ","x">>}

\* POST /goal: submit_goal as a whole, with the outcome of its audit_log
\* call and of its memory writes; an exception that leaves the handler is
\* answered with status 500
SubmitGoal(persona_in, header_key, auth, auditOutcome, memory) ==
    /\ goal.pc = "idle"
    /\ issued < MaxCalls
    /\ LET raw == Lower(Strip(IF persona_in = NoPersona \/ persona_in = <<>>
                              THEN getenv(environ, K_PHYSICLAW_PERSONA, PersonaSRE)
                              ELSE persona_in))
           persona == _normalize_persona_str(raw)
           request == [IdleGoal EXCEPT !.pc = "done", !.persona_in = persona_in,
                                       !.header_key = header_key, !.auth = auth,
                                       !.persona = persona]
           authorized == _is_authorized(environ, _API_KEY_MAP, jwtOK,
                                        header_key, auth, persona)
           event == AuditEventFor(authorized)
           id == issued + 1
       IN  IF persona \notin BridgePersonas
           THEN /\ goal' = [request EXCEPT !.status = "400"]
                /\ auditOutcome = "written" /\ memory = "ok"
                /\ UNCHANGED <<_API_KEY_MAP, auditFile, counters, issued, serialized,
                               returned>>
           ELSE /\ _API_KEY_MAP' = CacheAfter(environ, _API_KEY_MAP, jwtOK, auth, persona)
                /\ issued' = id
                /\ auditFile' = AuditFileAfter(auditFile, id, auditOutcome)
                /\ serialized' = SerializedAfter(serialized, id, auditOutcome)
                /\ counters' = CountersAfter(counters, event, PersonaName(persona),
                                             auditOutcome)
                /\ returned' = CountersAfter(returned, event, PersonaName(persona),
                                             auditOutcome)
                /\ IF auditOutcome = "mkdir_failed"
                   THEN /\ memory = "ok"
                        /\ goal' = [request EXCEPT !.authorized = authorized,
                                                   !.status = "500"]
                   ELSE IF ~authorized
                   THEN /\ memory = "ok"
                        /\ goal' = [request EXCEPT !.audit = event,
                                        !.status = DenialStatus(header_key, auth)]
                   ELSE IF memory = "failed"
                   THEN goal' = [request EXCEPT !.authorized = TRUE,
                                     !.audit = event, !.status = "500"]
                   ELSE goal' = [request EXCEPT !.authorized = TRUE,
                                     !.audit = event, !.status = "200",
                                     !.l1 = TRUE, !.l2 = TRUE,
                                     !.tools = resolve_goal_to_tools(persona)]
    /\ UNCHANGED <<jwtOK, authz>>
    /\ UNCHANGED <<earlier, lockHolder, threads, scrape>>
    /\ UNCHANGED <<sandboxVars, execVars, wdVars>>

\* the response has been sent
GoalReturn ==
    /\ goal.pc = "done"
    /\ goal' = IdleGoal
    /\ UNCHANGED <<_API_KEY_MAP, jwtOK, authz>>
    /\ UNCHANGED <<sandboxVars, execVars, wdVars, auditVars>>

-----------------------------------------------------------------------------
(* ToolExecutor._clean_env called on its own.                              *)

CleanEnvCall ==
    /\ executor # NoExecutor
    /\ call.pc = "idle"
    /\ call' = [IdleCall EXCEPT !.pc = "done",
                                !.env = _clean_env(environ, executor.persona)]
    /\ UNCHANGED <<environ, executor, built>>
    /\ UNCHANGED <<wdVars, auditVars, bridgeVars, sandboxVars>>

-----------------------------------------------------------------------------
(* Initial states and specifications.                                      *)

\* the environments of the executor runs: at most one of the variables the
\* execution boundary reads, or one secret
ExecEnvironments ==
    {e \in Environments :
        /\ Cardinality(DOMAIN e) <= 1
        /\ DOMAIN e \subseteq {K_PHYSICLAW_SANDBOX, K_PHYSICLAW_PERSONA, K_MY_API_TOKEN}}

ExecIdle ==
    /\ executor = NoExecutor
    /\ built = NotBuilt
    /\ call = IdleCall

WatchdogIdle ==
    /\ wdThread = "Stopped"
    /\ started = NotStarted
    /\ process = "running"
    /\ conns = <<>>
    /\ detected = <<>>
    /\ polled = "none"

BridgeIdle ==
    /\ _API_KEY_MAP = NotLoaded
    /\ authz = IdleAuthz
    /\ goal = IdleGoal

SandboxIdle == sandbox = IdleSandbox

AuditIdle ==
    /\ auditFile = earlier
    /\ lockHolder = NoThread
    /\ threads = [t \in AuditThreads |-> IdleThread]
    /\ counters = [c \in CounterNames |-> [k \in LabelKeys |-> 0]]
    /\ issued = 0
    /\ serialized = <<>>
    /\ returned = [c \in CounterNames |-> [k \in LabelKeys |-> 0]]
    /\ scrape = IdleScrape

\* the executor: ToolExecutor, get_executor, execute
InitExec ==
    /\ environ \in ExecEnvironments
    /\ ExecIdle
    /\ psutilOK = TRUE
    /\ WatchdogIdle
    /\ earlier = <<>>
    /\ AuditIdle
    /\ jwtOK = TRUE
    /\ BridgeIdle
    /\ bwrapOnPath = TRUE
    /\ SandboxIdle

NextExec ==
    \/ \E p \in PersonaInputs : NewToolExecutor(p)
    \/ \E p \in PersonaInputs : get_executor(p)
    \/ \E t \in ToolInputs, a \in ArgInputs, o \in TimeoutInputs : ExecuteCall(t, a, o)
    \/ ExecuteCheck
    \/ RunIsolatedPrepare
    \/ \E o \in SubprocessOutcomes, d \in CommandDurations : RunIsolatedSpawn(o, d)
    \/ RunIsolatedWait
    \/ ExecuteReturn

SpecExec == InitExec /\ [][NextExec]_vars

\* the environment sanitizer over every ambient environment
InitEnv ==
    /\ environ \in Environments
    /\ ExecIdle
    /\ psutilOK = TRUE
    /\ WatchdogIdle
    /\ earlier = <<>>
    /\ AuditIdle
    /\ jwtOK = TRUE
    /\ BridgeIdle
    /\ bwrapOnPath = TRUE
    /\ SandboxIdle

NextEnv ==
    \/ \E p \in PersonaInputs : NewToolExecutor(p)
    \/ CleanEnvCall
    \/ ExecuteReturn

SpecEnv == InitEnv /\ [][NextEnv]_vars

\* the egress watchdog beside a process that opens and closes connections
InitWatchdog ==
    /\ environ = <<>>
    /\ ExecIdle
    /\ psutilOK \in BOOLEAN
    /\ WatchdogIdle
    /\ earlier = <<>>
    /\ AuditIdle
    /\ jwtOK = TRUE
    /\ BridgeIdle
    /\ bwrapOnPath = TRUE
    /\ SandboxIdle

NextWatchdog ==
    \/ start_egress_watchdog
    \/ \E c \in ConnInputs : ConnOpen(c)
    \/ ConnClose
    \/ \E e \in EnumOutcomes : WatchdogPoll(e)

SpecWatchdog == InitWatchdog /\ [][NextWatchdog]_vars

\* audit_log called from several threads
InitAudit ==
    /\ environ = <<>>
    /\ ExecIdle
    /\ psutilOK = TRUE
    /\ WatchdogIdle
    /\ earlier \in {<<>>, <<OldLine>>}
    /\ AuditIdle
    /\ jwtOK = TRUE
    /\ BridgeIdle
    /\ bwrapOnPath = TRUE
    /\ SandboxIdle

NextAudit ==
    \/ \E t \in AuditThreads :
          \E c \in CallInputsOf(t), ok \in BOOLEAN : AuditLogCall(t, c, ok)
    \/ \E t \in AuditThreads : AuditAcquire(t)
    \/ \E t \in AuditThreads, ok \in BOOLEAN : AuditOpenWrite(t, ok)
    \/ \E t \in AuditThreads, ok \in BOOLEAN : AuditWriteRest(t, ok)
    \/ \E t \in AuditThreads : AuditNoCounter(t)
    \/ \E t \in AuditThreads : IncAcquire(t)
    \/ \E t \in AuditThreads : IncRead(t)
    \/ \E t \in AuditThreads : IncUpdate(t)
    \/ \E t \in AuditThreads : AuditLogReturn(t)

SpecAudit == InitAudit /\ [][NextAudit]_vars

\* the authorization gate under every configuration of the bridge
InitAuth ==
    /\ environ \in BridgeEnvironments
    /\ ExecIdle
    /\ psutilOK = TRUE
    /\ WatchdogIdle
    /\ earlier = <<>>
    /\ AuditIdle
    /\ jwtOK \in BOOLEAN
    /\ BridgeIdle
    /\ bwrapOnPath = TRUE
    /\ SandboxIdle

NextAuth ==
    \/ \E p \in BridgePersonas, k \in KeyHeaderInputs, a \in AuthHeaderInputs :
          IsAuthorizedCall(p, k, a)
    \/ IsAuthorizedReturn

SpecAuth == InitAuth /\ [][NextAuth]_vars

\* the configurations of the goal endpoint: no variable, or the credential
\* map "sre:K1,*:KA" with or without strict-auth and the signing secret
GoalEnvironments ==
    {e \in BridgeEnvironments :
        /\ getenv(e, K_PHYSICLAW_API_KEYS, <<>>)
              \in {<<>>, <<"s","r","e",":","K","1",",","*",":","K","A">>}
        /\ getenv(e, K_PHYSICLAW_REQUIRE_AUTH, <<>>) \in {<<>>, <<"1">>}
        /\ getenv(e, K_PHYSICLAW_JWT_SECRET, <<>>) \in {<<>>, SigningSecret}}

\* the goal endpoint of the bridge
InitBridge ==
    /\ environ \in GoalEnvironments
    /\ ExecIdle
    /\ psutilOK = TRUE
    /\ WatchdogIdle
    /\ earlier = <<>>
    /\ AuditIdle
    /\ jwtOK = TRUE
    /\ BridgeIdle
    /\ bwrapOnPath = TRUE
    /\ SandboxIdle

NextBridge ==
    \/ \E p \in GoalPersonaInputs, k \in GoalKeyInputs, a \in GoalAuthInputs :
          \E o \in AuditOutcomes, m \in MemoryOutcomes : SubmitGoal(p, k, a, o, m)
    \/ GoalReturn

SpecBridge == InitBridge /\ [][NextBridge]_vars

\* the calls of the metrics runs: two kinds with a counter, one labelled and
\* one global
MetricsCallInputs ==
    {c \in AuditCallInputs :
        \/ c.event = "goal" /\ c.persona = "sre"
        \/ c.event = "egress_block"}

\* two threads in audit_log while a third serves GET /metrics
InitMetrics ==
    /\ environ = <<>>
    /\ ExecIdle
    /\ psutilOK = TRUE
    /\ WatchdogIdle
    /\ earlier = <<>>
    /\ AuditIdle
    /\ jwtOK = TRUE
    /\ BridgeIdle
    /\ bwrapOnPath = TRUE
    /\ SandboxIdle

NextMetrics ==
    \/ \E t \in AuditThreads :
          \E c \in MetricsCallInputs, ok \in BOOLEAN : AuditLogCall(t, c, ok)
    \/ \E t \in AuditThreads : AuditAcquire(t)
    \/ \E t \in AuditThreads, ok \in BOOLEAN : AuditOpenWrite(t, ok)
    \/ \E t \in AuditThreads, ok \in BOOLEAN : AuditWriteRest(t, ok)
    \/ \E t \in AuditThreads : IncAcquire(t)
    \/ \E t \in AuditThreads : IncRead(t)
    \/ \E t \in AuditThreads : IncUpdate(t)
    \/ \E t \in AuditThreads : AuditLogReturn(t)
    \/ ScrapeAcquire
    \/ ScrapeRead
    \/ ScrapeReturn

SpecMetrics == InitMetrics /\ [][NextMetrics]_vars

\* the environments of the sandbox runs: PHYSICLAW_SANDBOX set or not
SandboxEnvironments ==
    {e \in ExecEnvironments : DOMAIN e \subseteq {K_PHYSICLAW_SANDBOX}}

\* one caller that runs tools through execute and through run_in_bwrap, one
\* call at a time
InitSandbox ==
    /\ environ \in SandboxEnvironments
    /\ ExecIdle
    /\ psutilOK = TRUE
    /\ WatchdogIdle
    /\ earlier = <<>>
    /\ AuditIdle
    /\ jwtOK = TRUE
    /\ BridgeIdle
    /\ bwrapOnPath \in BOOLEAN
    /\ SandboxIdle

NextSandbox ==
    \/ sandbox.pc = "idle" /\ \E p \in Persona : NewToolExecutor(p)
    \/ sandbox.pc = "idle" /\ \E t \in ToolInputs, a \in ArgInputs, o \in TimeoutInputs :
                                 ExecuteCall(t, a, o)
    \/ ExecuteCheck
    \/ RunIsolatedPrepare
    \/ \E o \in SubprocessOutcomes, d \in CommandDurations : RunIsolatedSpawn(o, d)
    \/ RunIsolatedWait
    \/ ExecuteReturn
    \/ \E argv \in BwrapArgvInputs, env \in BwrapEnvInputs, cwd \in BwrapCwdInputs,
          timeout_sec \in BwrapTimeoutInputs, allow_network \in BOOLEAN,
          fs \in FileSystems :
            RunInBwrapCall(argv, env, cwd, timeout_sec, allow_network, fs)
    \/ \E o \in SubprocessOutcomes, d \in CommandDurations : RunInBwrapSpawn(o, d)
    \/ RunInBwrapWait
    \/ RunInBwrapReturn

SpecSandbox == InitSandbox /\ [][NextSandbox]_vars

-----------------------------------------------------------------------------
(* Properties.                                                             *)

\* the matching rule of the authorization model: the normalized query
\* equals, contains or is contained in the normalized entry
Matches(tool, entry) ==
    \/ _norm(tool) = _norm(entry)
    \/ IsSubstr(_norm(tool), _norm(entry))
    \/ IsSubstr(_norm(entry), _norm(tool))

AllWhitelists == SRE_WHITELIST \cup SECOPS_WHITELIST

\* the whitelist that belongs to a persona
OwnWhitelist(persona) ==
    CASE persona = PersonaSRE -> SRE_WHITELIST
      [] persona = PersonaSECOPS -> SECOPS_WHITELIST
      [] OTHER -> {}

DeniedResult == Raised("SecurityViolation")

\* C1: in execute the whitelist test precedes process creation: the call
\* reaches _run_isolated, a runner or a spawn only for a tool that allowed()
\* accepts, and a call for a tool that allowed() rejects ends with
\* SecurityViolation and without any spawn.
C1_CheckBeforeSpawn ==
    /\ (call.pc \in {"argv", "spawn", "running"} \/ call.spawns > 0
            \/ call.runner # "none")
          => allowed(executor.whitelist, call.tool)
    /\ (call.pc = "done" /\ ~allowed(executor.whitelist, call.tool))
          => (call.result = DeniedResult /\ call.spawns = 0 /\ call.runner = "none")

\* a call for "rm -rf /" has been denied
C1_Witness ==
    /\ call.pc = "done"
    /\ call.tool = <<"r","m"," ","-","r","f"," ","/">>
    /\ call.result = DeniedResult
    /\ call.spawns = 0

\* C2: a call for a tool string that is no entry of any whitelist (the
\* empty string, a single letter, "rm") spawns no subprocess, under every
\* persona and for every argument list.
C2_NonEntriesNeverSpawn ==
    (\A e \in AllWhitelists : _norm(call.tool) # _norm(e)) => call.spawns = 0

\* C3: an executor is bound to the whitelist of its own persona, and the
\* answer of allowed(T) is exactly whether T matches an entry of that
\* whitelist, whatever the other persona's whitelist holds.
C3_CrossPersonaIsolation ==
    executor # NoExecutor =>
        /\ executor.whitelist = OwnWhitelist(executor.persona)
        /\ call.pc \notin {"idle", "check"} =>
              (call.allowed <=> \E e \in OwnWhitelist(executor.persona) :
                                    Matches(call.tool, e))

\* an sre executor has rejected "nmap", an entry of the secops whitelist
C3_Witness ==
    /\ executor.persona = PersonaSRE
    /\ call.pc = "done"
    /\ call.tool = <<"n","m","a","p">>
    /\ call.tool \in SECOPS_WHITELIST
    /\ call.allowed = FALSE

\* the secret-name pattern: a listed provider prefix, or one of the generic
\* substrings anywhere in the name, case-insensitive
GenericSecretSubstrings == CleanEnvSubstrings \cup {<<"C","R","E","D","E","N","T","I","A","L">>}

SecretNamePattern(k) ==
    \/ \E p \in _STRIPPED_ENV_PREFIXES : StartsWith(Upper(k), p)
    \/ \E w \in GenericSecretSubstrings : IsSubstr(w, Upper(k))

\* C4: the environment _clean_env returns holds no key whose name matches a
\* secret-name pattern.
C4_NoSecretKeys ==
    call.pc = "done" => \A k \in DOMAIN call.env : ~SecretNamePattern(k)

\* C5: once a poll has found a connection outside SafeAddressSpace the whole
\* process has ended with status 1; no state has a detected violation and a
\* running process.
C5_ViolationEndsProcess ==
    detected # <<>> => process = "exit1"

\* the address of a remote endpoint without its port or zone qualifier
BareAddress(s) ==
    LET noZone == SplitOn(s, "%")[1]
        colons == Cardinality({i \in 1..Len(noZone) : noZone[i] = ":"})
    IN  IF noZone # <<>> /\ noZone[1] = "[" /\ HasChar(noZone, "]")
        THEN SplitOn(Tail(noZone), "]")[1]
        ELSE IF colons = 1 THEN SplitOn(noZone, ":")[1]
        ELSE noZone

\* the address lies in some prefix of SafeAddressSpace
InSafeAddressSpace(s) ==
    LET ip == ip_address(BareAddress(s))
    IN  ip.ok /\ \E i \in 1..Len(SAFE_SUBNETS) : InNetwork(ip, SAFE_SUBNETS[i])

\* the connections a poll considers: ESTABLISHED or SYN_SENT, with a remote
\* address
Considered(cs) ==
    {i \in 1..Len(cs) : cs[i].status \in {"ESTABLISHED", "SYN_SENT"} /\ cs[i].raddr.present}

\* C6: the watchdog reports the remote address of a considered connection
\* iff it lies outside every prefix of SafeAddressSpace; an address inside
\* SafeAddressSpace (IPv4 or IPv6, with or without port or zone) is never
\* reported and never ends the watchdog's watch.
C6_ReportedIffOutside ==
    /\ \A i \in 1..Len(detected) : ~InSafeAddressSpace(detected[i].ip)
    /\ wdThread = "Exited" =>
          {detected[i].ip : i \in 1..Len(detected)}
              = {conns[i].raddr.ip : i \in {j \in Considered(conns) :
                                              ~InSafeAddressSpace(conns[j].raddr.ip)}}

\* the chunk a call has put into the file, by the status of its write
ChunkOf(entry) ==
    CASE entry.status = "written" -> <<LineHead(entry.id), LineRest(entry.id)>>
      [] entry.status \in {"head", "write_failed"} -> <<LineHead(entry.id)>>
      [] OTHER -> <<>>

RECURSIVE ChunksOf(_)
ChunksOf(order) ==
    IF order = <<>> THEN <<>> ELSE ChunkOf(Head(order)) \o ChunksOf(Tail(order))

RECURSIVE CompleteLines(_)
CompleteLines(order) ==
    IF order = <<>> THEN <<>>
    ELSE <<LineHead(Head(order).id), LineRest(Head(order).id)>> \o CompleteLines(Tail(order))

AllReturned == \A t \in AuditThreads : threads[t].pc = "idle"

\* C7 as stated, for the calls that returned normally: once all calls are
\* over the file holds the earlier content followed by one complete line per
\* call, in the order the writes were serialized.
C7_OneLinePerCall ==
    AllReturned => auditFile = earlier \o CompleteLines(serialized)

\* C7 amended: at every moment the file holds the earlier content followed,
\* in the order the calls took the write lock, by one contiguous chunk per
\* call: the complete line when its write succeeded, the leading part of the
\* line when the write failed or is still under way, nothing when open
\* failed; a call whose _audit_path raised adds nothing. Chunks of different
\* calls never interleave and earlier content is never changed.
C7_AppendOnlySerialized ==
    auditFile = earlier \o ChunksOf(serialized)

\* two calls from different threads were serialized against their order of
\* issue behind an older line; one wrote its line, the write of the other
\* failed part-way
C7_Witness ==
    /\ AllReturned
    /\ earlier = <<OldLine>>
    /\ Len(serialized) = 2
    /\ serialized[1] = [id |-> 2, status |-> "written"]
    /\ serialized[2] = [id |-> 1, status |-> "write_failed"]
    /\ auditFile = <<OldLine, LineHead(2), LineRest(2), LineHead(1)>>

\* C8: with hardened mode enabled no tool runs as a direct subprocess: a
\* call that passed the whitelist test went through the sandbox runner or
\* ended with an error result.
C8_HardenedNeverDirect ==
    (sandbox_enabled(environ) /\ call.spawns > 0) => call.runner = "bwrap"

\* some entry of the counter has been incremented
Counted(counter) == \E k \in LabelKeys : counters[counter][k] > 0

\* C9: an execute call that has ended left an audit record: a denial a
\* security_violation record, a run a tool_call record.
C9_ExecuteAudited ==
    call.pc = "done" =>
        /\ auditFile # earlier
        /\ call.result = DeniedResult => Counted("security_violations_total")
        /\ call.result.kind = "result" => Counted("tool_calls_total")

\* C10: a poll that detected a connection outside SafeAddressSpace recorded
\* an egress_block event and incremented the global egress_blocks counter.
C10_EgressBlockRecorded ==
    detected # <<>> =>
        /\ auditFile # earlier
        /\ counters["egress_blocks_total"][<<>>] > 0

\* the effective timeout of a request: its numeric timeout, else 300 s
EffectiveTimeout(timeout) ==
    IF timeout = "numeric" THEN RequestTimeout ELSE DefaultTimeout

TimedOutResult ==
    [kind |-> "result", ok |-> FALSE, returncode |-> "none",
     error |-> "command timed out"]

\* C11: a call whose command runs longer than the effective timeout (the
\* numeric timeout of the request, else 300 s) returns the result with
\* ok = false classified as timeout, and when it returns the child it
\* spawned is no longer running.
C11_TimeoutKillsChild ==
    (/\ call.pc = "done"
     /\ call.spawns > 0
     /\ call.duration > EffectiveTimeout(call.timeout))
        => (call.result = TimedOutResult /\ ~call.childAlive)

\* a 400 s command under a request whose timeout is no number has timed out
\* at 300 s, and a 2 s command has not
C11_Witness ==
    /\ call.pc = "done"
    /\ call.timeout = "nonnumeric"
    /\ call.duration = 400
    /\ call.spawns = 1
    /\ call.result = TimedOutResult
    /\ ~call.childAlive

\* C12: a call for a tool that passed the whitelist test never raises: it
\* ends with a structured result, with ok = false for every failure (binary
\* not found, timeout, non-zero exit, a tool string shlex cannot split, any
\* other spawn failure).
C12_NeverRaises ==
    (call.pc = "done" /\ call.allowed) =>
        /\ call.result.kind = "result"
        /\ call.outcome # "exit0" => ~call.result.ok

\* the credential map the configuration holds
ConfiguredMap == ParseApiKeys(environ)

\* the key is registered for the persona or for the wildcard persona
Registered(key, persona) ==
    \E g \in ConfiguredMap : g[2] = key /\ g[1] \in {persona, Wildcard}

\* C13 as stated: with strict-auth enabled and no credential map configured
\* _is_authorized denies every request, whatever key and bearer token it
\* presents.
C13_StrictNoMapDeniesAll ==
    (authz.pc = "done" /\ _auth_required(environ) /\ ConfiguredMap = {})
        => ~authz.result

\* C13 amended: with strict-auth enabled and no credential map configured
\* _is_authorized admits a request exactly when _validate_jwt accepts its
\* bearer token for the persona; every other request is denied whatever key
\* it presents.
C13_StrictNoMapOnlyValidToken ==
    (authz.pc = "done" /\ _auth_required(environ) /\ ConfiguredMap = {})
        => (authz.result <=> authz.jwt)

\* strict-auth, no map: a request with a key and a bearer token that does
\* not verify has been denied
C13_Witness ==
    /\ authz.pc = "done"
    /\ _auth_required(environ)
    /\ ConfiguredMap = {}
    /\ authz.header_key = <<"K","A">>
    /\ authz.auth = <<"B","e","a","r","e","r"," ","x">>
    /\ ~authz.result

C15_ProvidedCredentialMustBeValid ==
    (/\ authz.pc = "done"
     /\ ~_auth_required(environ)
     /\ ConfiguredMap # {}
     /\ (authz.header_key # NoHeader \/ authz.auth # NoHeader)
     /\ authz.result)
        => (authz.jwt \/ Registered(authz.header_key, authz.persona))

\* the request offered a credential: a key header or an authorization
\* header with a value
Offered(header) == header # NoHeader /\ header # <<>>

\* C16: every denial by the authorization gate in submit_goal is audited
\* with an auth_denied event for the persona and answered 401 exactly when
\* the request offered no credential (no key header and no authorization
\* header), 403 exactly when it offered one.
C16_DenialAuditedAndDistinguishable ==
    (goal.pc = "done" /\ goal.persona \in BridgePersonas /\ ~goal.authorized) =>
        /\ goal.audit = "auth_denied"
        /\ counters["auth_denied_total"][<<PersonaName(goal.persona)>>] > 0
        /\ goal.status = IF Offered(goal.header_key) \/ Offered(goal.auth)
                         THEN "403" ELSE "401"

\* the persona string names a member of the closed persona set, compared
\* case-insensitively with whitespace collapsed
Recognized(persona) == JoinSpace(Split(Lower(persona))) \in BridgePersonas

\* C17: a persona string outside the closed persona set is never mapped to
\* a known persona: building an executor for it (ToolExecutor(...),
\* cli.get_executor) ends in an error and yields no executor bound to some
\* persona's whitelist.
C17_UnknownPersonaRejected ==
    (built.via # "none" /\ built.requested # <<>> /\ ~Recognized(built.requested))
        => built.error # "none"

\* C18: a failure to persist an audit record (the directory cannot be
\* created, the file cannot be opened or written) never raises out of
\* audit_log: the call returns normally and the counter of its event has
\* been updated.
C18_PersistFailureNeverRaises ==
    \A t \in AuditThreads :
        /\ threads[t].pc # "raised"
        /\ (threads[t].pc = "done" /\ CounterOf(threads[t].event) # "none") =>
              counters[CounterOf(threads[t].event)]
                      [LabelsOf(threads[t].event, threads[t].persona)] > 0

\* what a call ending in this step leaves in the counters: one more in the
\* entry its event kind and labels prescribe, nothing for any other kind
Prescribed(cs, event, persona) ==
    IF CounterOf(event) = "none" THEN cs
    ELSE [cs EXCEPT ![CounterOf(event)][LabelsOf(event, persona)] = @ + 1]

\* the audit_log call of thread t ends in this step
Ends(t) ==
    /\ threads[t].pc \notin {"done", "raised"}
    /\ threads'[t].pc \in {"done", "raised"}

\* C19: each audit_log call changes the counters exactly as its event kind
\* prescribes (goal, security_violation, auth_denied: one more for the
\* persona; tool_call: one more for persona, tool and outcome; egress_block:
\* one more in the global counter; any other kind: nothing), and nothing
\* else ever changes a counter.
C19_CounterEffect ==
    [][/\ \A t \in AuditThreads :
            Ends(t) => counters' = Prescribed(counters, threads'[t].event,
                                               threads'[t].persona)
       /\ (\A t \in AuditThreads : ~Ends(t)) => counters' = counters]_vars

\* C20: without psutil start_egress_watchdog logs that the watchdog is
\* disabled, starts no thread and returns None; the watchdog stays in
\* Stopped, never reaches Watching and detects nothing.
C20_NoPsutilNoWatchdog ==
    ~psutilOK =>
        /\ wdThread = "Stopped"
        /\ detected = <<>>
        /\ started # NotStarted =>
              started = [returned |-> "None", log |-> "warning: disabled"]

\* start_egress_watchdog has been called without psutil while the process
\* holds a connection
C20_Witness ==
    /\ ~psutilOK
    /\ started.returned = "None"
    /\ wdThread = "Stopped"
    /\ conns # <<>>

\* C21: when the isolation binary cannot be found, run_in_bwrap is over at
\* once with an error result (ok = FALSE, no exit code), no process has been
\* created, and nothing is ever handed to subprocess.run whose first word is
\* not the bwrap binary followed by the sandbox flags, "--" and argv.
C21_NoBwrapNoSpawn ==
    /\ (sandbox.pc # "idle" /\ ~bwrapOnPath) =>
          /\ sandbox.pc = "done"
          /\ sandbox.spawns = 0
          /\ ~sandbox.childAlive
          /\ sandbox.result.kind = "result"
          /\ ~sandbox.result.ok
          /\ sandbox.result.returncode = "none"
          /\ sandbox.result.error = "bwrap not found"
    /\ sandbox.pc \in {"spawn", "running"} =>
          /\ bwrapOnPath
          /\ Head(sandbox.full_argv) = BwrapPath
          /\ \E k \in 1..Len(sandbox.full_argv) :
                /\ sandbox.full_argv[k] = F_sep
                /\ SubSeq(sandbox.full_argv, k + 1, Len(sandbox.full_argv)) = sandbox.argv

\* a call of run_in_bwrap that ended without the binary
C21_Witness ==
    /\ ~bwrapOnPath
    /\ sandbox.pc = "done"
    /\ sandbox.argv = <<W_nmap>>
    /\ sandbox.result = BwrapNotFound


\* the exit status of a child that ran to its end, as subprocess.run reports
\* it in result.returncode
StatusOf(outcome) ==
    CASE outcome = "exit0" -> "0"
      [] outcome = "exit1" -> "1"
      [] OTHER -> "none"

\* a returned dict carries an exit code or an error, never both and never
\* neither; ok goes with exit code 0; the exit code is the child's
OneOfCodeOrError(r, outcome) ==
    r.kind = "result" =>
        /\ (r.returncode # "none") <=> (r.error = "none")
        /\ r.ok <=> (r.returncode = "0")
        /\ StatusOf(outcome) # "none" => r.returncode = StatusOf(outcome)
        /\ StatusOf(outcome) = "none" => r.returncode = "none"

\* C22: every dict returned by _run_isolated and by run_in_bwrap has
\* returncode present iff error is absent, ok true iff returncode is 0, and
\* the exit status of a child that ended, zero or not, as its returncode.
C22_ExitCodeXorError ==
    /\ call.pc = "done" => OneOfCodeOrError(call.result, call.outcome)
    /\ sandbox.pc = "done" => OneOfCodeOrError(sandbox.result, sandbox.outcome)

\* run_in_bwrap returned for a command that exited with status 1
C22_Witness ==
    /\ sandbox.pc = "done"
    /\ sandbox.spawns = 1
    /\ sandbox.outcome = "exit1"
    /\ sandbox.result.returncode = "1"
    /\ ~sandbox.result.ok

\* _run_isolated returned for a command that exited with status 1
C22_WitnessRunIsolated ==
    /\ call.pc = "done"
    /\ call.spawns = 1
    /\ call.outcome = "exit1"
    /\ call.result.returncode = "1"
    /\ ~call.result.ok


\* the threads whose audit_log call has counted and not yet returned
Counted23(c, k) ==
    {t \in AuditThreads :
        /\ threads[t].pc = "done"
        /\ CounterOf(threads[t].event) = c
        /\ LabelsOf(threads[t].event, threads[t].persona) = k}

\* C23: no increment is lost: every counter entry equals the number of
\* audit_log calls for that event kind and label set that have got through
\* _inc, so that once k such calls have returned the entry has grown by
\* exactly k; and while get_prometheus_metrics renders, every line it has
\* produced so far is the present content of its counter, so that the whole
\* text shows the counters of one instant.
C23_NoLostIncrement ==
    /\ \A c \in CounterNames, k \in LabelKeys :
          counters[c][k] = returned[c][k] + Cardinality(Counted23(c, k))
    /\ scrape.pc = "render" =>
          \A i \in 1..(scrape.next - 1) :
              scrape.lines[RenderOrder[i]] = Rendered(counters, RenderOrder[i])

\* two overlapping calls for the same label set have both returned, the
\* second one issued having taken the write lock first, while the scraper
\* has rendered the counter they share
C23_Witness ==
    /\ AllReturned
    /\ returned["goals_total"][<<"sre">>] = 2
    /\ counters["goals_total"][<<"sre">>] = 2
    /\ Len(serialized) = 2
    /\ serialized[1].id = 2
    /\ scrape.pc = "render"
    /\ scrape.next > 1
    /\ scrape.lines["goals_total"] = {<<<<"sre">>, 2>>}


\* submit_goal answers a request in this step without having admitted it
EndsUnadmitted ==
    /\ goal.pc = "idle"
    /\ goal'.pc = "done"
    /\ ~goal'.authorized

\* C24: a request that submit_goal denies, or whose persona it rejects,
\* leaves no goal event in the audit trail and no change in the goal
\* counter, writes nothing to the L1 and L2 memory tiers and gets no tool
\* list; a rejected persona leaves the audit trail and every counter as
\* they were.
C24_DecisionBeforeAcceptance ==
    [][EndsUnadmitted =>
          /\ goal'.audit \in {"none", "auth_denied"}
          /\ counters'["goals_total"] = counters["goals_total"]
          /\ ~goal'.l1
          /\ ~goal'.l2
          /\ goal'.tools = "none"
          /\ goal'.status \in {"400", "401", "403", "500"}
          /\ goal'.persona \notin BridgePersonas =>
                /\ goal'.status = "400"
                /\ auditFile' = auditFile
                /\ counters' = counters]_vars

\* a goal was accepted for sre, and the next request, for sre with a key
\* that is not registered, has been answered 403: the goal counter still
\* shows the one accepted goal
C24_Witness ==
    /\ goal.pc = "done"
    /\ ~goal.authorized
    /\ goal.persona = PersonaSRE
    /\ goal.status = "403"
    /\ goal.audit = "auth_denied"
    /\ counters["goals_total"][<<"sre">>] = 1
    /\ counters["auth_denied_total"][<<"sre">>] = 1
    /\ ~goal.l1 /\ ~goal.l2 /\ goal.tools = "none"


\* the binaries of a persona's whitelist entries
OwnBinaries(persona) ==
    CASE persona = PersonaSRE ->
            {W_kubectl, W_terraform, <<"l","o","g","-","a","g","g","r","e","g","a","t","o","r">>, <<"p","r","o","m","e","t","h","e","u","s","-","q","u","e","r","y">>}
      [] persona = PersonaSECOPS ->
            {W_nmap, W_bandit, <<"i","a","m","-","i","n","s","p","e","c","t">>, <<"v","a","u","l","t","-","r","e","a","d">>}
      [] OTHER -> {}

\* C25: whenever execute under persona P has spawned a process, the binary
\* it ran (argv[0]) is the binary of one of P's own whitelist entries, never
\* another persona's tool and never a binary that is no whitelisted tool.
C25_SpawnsOwnToolOnly ==
    (executor # NoExecutor /\ call.spawns > 0) =>
        Head(call.argv) \in OwnBinaries(executor.persona)

\* an sre executor has spawned nmap, a tool of the secops whitelist
C25_CrossPersonaSpawn ==
    /\ executor.persona = PersonaSRE
    /\ call.allowed
    /\ call.spawns = 1
    /\ Head(call.argv) = W_nmap


\* the enumeration of the last poll failed
EnumFailed == polled \in EnumOutcomes \ {"ok"}

\* C26: a poll whose enumeration of the connections fails (process gone,
\* access denied, any other error) reports nothing, leaves the watchdog in
\* Watching, ready for the next poll, and the process running; and the
\* watchdog ends its watch only after an enumeration that succeeded and
\* listed an ESTABLISHED or SYN_SENT connection with a remote address:
\* connections in other states and entries without a remote address never
\* end it.
C26_FailedPollAndIgnoredEntries ==
    /\ EnumFailed =>
          /\ detected = <<>>
          /\ wdThread = "Watching"
          /\ process = "running"
    /\ wdThread = "Exited" =>
          /\ polled = "ok"
          /\ detected # <<>>
          /\ \A i \in 1..Len(detected) :
                \E j \in Considered(conns) :
                    /\ conns[j].raddr.ip = detected[i].ip
                    /\ conns[j].status = detected[i].status
    /\ Considered(conns) = {} => wdThread # "Exited" /\ process = "running"

\* the enumeration failed in a poll while the process held an ESTABLISHED
\* connection to a public address and a listening socket
C26_Witness ==
    /\ polled = "AccessDenied"
    /\ wdThread = "Watching"
    /\ process = "running"
    /\ detected = <<>>
    /\ Len(conns) = 2
    /\ conns[1] = [status |-> "ESTABLISHED", raddr |-> Raddr(<<"8",".","8",".","8",".","8">>)]
    /\ conns[2] = [status |-> "LISTEN", raddr |-> NoRaddr]

\* a poll succeeded and found nothing to report although the process held
\* a TIME_WAIT connection to a public address and a socket without a remote
\* address
C26_IgnoredWitness ==
    /\ polled = "ok"
    /\ wdThread = "Watching"
    /\ detected = <<>>
    /\ Len(conns) = 2
    /\ conns[1] = [status |-> "TIME_WAIT", raddr |-> Raddr(<<"8",".","8",".","8",".","8">>)]
    /\ conns[2] = [status |-> "ESTABLISHED", raddr |-> NoRaddr]


====
